---- MODULE Spec2Model ----
(***************************************************************************)
(* Model of project_to_markdown.analyzer.ProjectAnalyzer: the file         *)
(* classification, the content truncation, the tree rendering and the      *)
(* collecting traversal over a directory tree.                             *)
(*                                                                         *)
(* Strings of the program (file names, file contents, tree lines) are      *)
(* sequences of Unicode code points, so that sorted(), str.lower(),        *)
(* os.path.splitext(), str.split('\n') and str.strip() are computed as     *)
(* Python computes them.  A path is the sequence of its components.        *)
(***************************************************************************)
EXTENDS Integers, Sequences, FiniteSets, TLC

(***************************************************************************)
(* constants.py                                                            *)
(***************************************************************************)
MIN_LINES_PER_FILE == 5

\* constants.py sets 500 * 1024 * 1024; the model scales the ceiling down to
\* a value the contents of its small trees can exceed.
MAX_TOTAL_SIZE_BYTES == 40

\* is_text_file reads the first 1024 bytes; the model scales the chunk down
\* so that its files can be longer than it
CHUNK_BYTES == 8

SENSITIVE_FILES ==
  { <<46,82,101,110,118,105,114,111,110>>,                  \* ".Renviron"
    <<46,82,112,114,111,102,105,108,101>>,                  \* ".Rprofile"
    <<46,97,119,115,47,99,114,101,100,101,110,116,105,97,108,115>>, \* ".aws/credentials"
    <<46,101,110,118>>,                                     \* ".env"
    <<46,101,110,118,46,100,101,118,101,108,111,112,109,101,110,116>>, \* ".env.development"
    <<46,101,110,118,46,108,111,99,97,108>>,                \* ".env.local"
    <<46,101,110,118,46,112,114,111,100,117,99,116,105,111,110>>, \* ".env.production"
    <<46,101,110,118,46,116,101,115,116>>,                  \* ".env.test"
    <<46,110,112,109,114,99>>,                              \* ".npmrc"
    <<46,112,121,112,105,114,99>>,                          \* ".pypirc"
    <<99,108,105,101,110,116,95,115,101,99,114,101,116,115,46,106,115,111,110>>, \* "client_secrets.json"
    <<99,111,110,102,105,103,46,106,115,111,110>>,          \* "config.json"
    <<99,111,110,110,101,99,116,105,111,110,46,106,115,111,110>>, \* "connection.json"
    <<99,114,101,100,101,110,116,105,97,108,115,46,106,115,111,110>>, \* "credentials.json"
    <<100,97,116,97,98,97,115,101,46,105,110,105>>,         \* "database.ini"
    <<100,97,116,97,98,97,115,101,46,121,97,109,108>>,      \* "database.yaml"
    <<100,97,116,97,98,97,115,101,46,121,109,108>>,         \* "database.yml"
    <<105,100,95,100,115,97>>,                              \* "id_dsa"
    <<105,100,95,101,99,100,115,97>>,                       \* "id_ecdsa"
    <<105,100,95,114,115,97>>,                              \* "id_rsa"
    <<115,101,99,114,101,116,115,46,121,97,109,108>>,       \* "secrets.yaml"
    <<115,101,99,114,101,116,115,46,121,109,108>>,          \* "secrets.yml"
    <<115,101,114,118,105,99,101,45,97,99,99,111,117,110,116,46,106,115,111,110>>, \* "service-account.json"
    <<115,101,116,116,105,110,103,115,46,106,115,111,110>>, \* "settings.json"
    <<119,112,45,99,111,110,102,105,103,46,112,104,112>> }  \* "wp-config.php"

DEFAULT_EXCLUDE_DIRS ==
  { <<46,101,110,118>>,                                     \* ".env"
    <<46,103,105,116>>,                                     \* ".git"
    <<46,104,121,112,111,116,104,101,115,105,115>>,         \* ".hypothesis"
    <<46,105,100,101,97>>,                                  \* ".idea"
    <<46,106,101,107,121,108,108,45,99,97,99,104,101>>,     \* ".jekyll-cache"
    <<46,109,121,112,121,95,99,97,99,104,101>>,             \* ".mypy_cache"
    <<46,110,101,120,116>>,                                 \* ".next"
    <<46,110,117,120,116>>,                                 \* ".nuxt"
    <<46,112,121,116,101,115,116,95,99,97,99,104,101>>,     \* ".pytest_cache"
    <<46,114,117,102,102,95,99,97,99,104,101>>,             \* ".ruff_cache"
    <<46,118,101,110,118>>,                                 \* ".venv"
    <<46,118,115,99,111,100,101>>,                          \* ".vscode"
    <<95,95,112,121,99,97,99,104,101,95,95>>,               \* "__pycache__"
    <<95,115,105,116,101>>,                                 \* "_site"
    <<98,117,105,108,100>>,                                 \* "build"
    <<99,111,118,101,114,97,103,101>>,                      \* "coverage"
    <<100,105,115,116>>,                                    \* "dist"
    <<101,110,118>>,                                        \* "env"
    <<110,111,100,101,95,109,111,100,117,108,101,115>>,     \* "node_modules"
    <<112,114,111,106,101,99,116,95,116,111,95,109,97,114,107,100,111,119,110,95,111,117,116,112,117,116>>, \* "project_to_markdown_output"
    <<114,101,110,118>>,                                    \* "renv"
    <<116,109,112>>,                                        \* "tmp"
    <<118,101,110,118>> }                                   \* "venv"

CODE_FILE_EXTENSIONS ==
  { <<46,98,97,115,104>>,                                   \* ".bash"
    <<46,98,97,116>>,                                       \* ".bat"
    <<46,99>>,                                              \* ".c"
    <<46,99,108,106>>,                                      \* ".clj"
    <<46,99,108,115>>,                                      \* ".cls"
    <<46,99,109,100>>,                                      \* ".cmd"
    <<46,99,111,110,102>>,                                  \* ".conf"
    <<46,99,112,112>>,                                      \* ".cpp"
    <<46,99,115>>,                                          \* ".cs"
    <<46,99,115,115>>,                                      \* ".css"
    <<46,101,110,118>>,                                     \* ".env"
    <<46,101,120>>,                                         \* ".ex"
    <<46,101,120,115>>,                                     \* ".exs"
    <<46,102,105,115,104>>,                                 \* ".fish"
    <<46,103,111>>,                                         \* ".go"
    <<46,103,114,97,100,108,101>>,                          \* ".gradle"
    <<46,103,114,111,111,118,121>>,                         \* ".groovy"
    <<46,104>>,                                             \* ".h"
    <<46,104,112,112>>,                                     \* ".hpp"
    <<46,104,116,109,108>>,                                 \* ".html"
    <<46,105,110,105>>,                                     \* ".ini"
    <<46,106,97,118,97>>,                                   \* ".java"
    <<46,106,115>>,                                         \* ".js"
    <<46,106,115,111,110>>,                                 \* ".json"
    <<46,106,115,120>>,                                     \* ".jsx"
    <<46,107,116>>,                                         \* ".kt"
    <<46,107,116,115>>,                                     \* ".kts"
    <<46,108,101,115,115>>,                                 \* ".less"
    <<46,109>>,                                             \* ".m"
    <<46,109,100>>,                                         \* ".md"
    <<46,109,109>>,                                         \* ".mm"
    <<46,112,104,112>>,                                     \* ".php"
    <<46,112,108>>,                                         \* ".pl"
    <<46,112,109>>,                                         \* ".pm"
    <<46,112,115,49>>,                                      \* ".ps1"
    <<46,112,120,100>>,                                     \* ".pxd"
    <<46,112,121>>,                                         \* ".py"
    <<46,112,121,105>>,                                     \* ".pyi"
    <<46,112,121,120>>,                                     \* ".pyx"
    <<46,113,109,100>>,                                     \* ".qmd"
    <<46,114>>,                                             \* ".r"
    <<46,114,98>>,                                          \* ".rb"
    <<46,114,115>>,                                         \* ".rs"
    <<46,114,115,116>>,                                     \* ".rst"
    <<46,115,99,97,108,97>>,                                \* ".scala"
    <<46,115,99,115,115>>,                                  \* ".scss"
    <<46,115,104>>,                                         \* ".sh"
    <<46,115,118,101,108,116,101>>,                         \* ".svelte"
    <<46,115,119,105,102,116>>,                             \* ".swift"
    <<46,116,101,120>>,                                     \* ".tex"
    <<46,116,111,109,108>>,                                 \* ".toml"
    <<46,116,115>>,                                         \* ".ts"
    <<46,116,115,120>>,                                     \* ".tsx"
    <<46,116,120,116>>,                                     \* ".txt"
    <<46,118,117,101>>,                                     \* ".vue"
    <<46,121,97,109,108>>,                                  \* ".yaml"
    <<46,121,109,108>>,                                     \* ".yml"
    <<46,122,115,104>> }                                    \* ".zsh"

NO_EXT_CODE_FILES ==
  { <<98,114,101,119,102,105,108,101>>,                     \* "brewfile"
    <<99,111,110,116,97,105,110,101,114,102,105,108,101>>,  \* "containerfile"
    <<100,111,99,107,101,114,102,105,108,101>>,             \* "dockerfile"
    <<100,111,99,107,101,114,105,103,110,111,114,101>>,     \* "dockerignore"
    <<101,100,105,116,111,114,99,111,110,102,105,103>>,     \* "editorconfig"
    <<103,101,109,102,105,108,101>>,                        \* "gemfile"
    <<106,101,110,107,105,110,115,102,105,108,101>>,        \* "jenkinsfile"
    <<106,117,115,116,102,105,108,101>>,                    \* "justfile"
    <<109,97,107,101,102,105,108,101>>,                     \* "makefile"
    <<112,114,111,99,102,105,108,101>>,                     \* "procfile"
    <<112,121,108,105,110,116,114,99>>,                     \* "pylintrc"
    <<114,97,107,101,102,105,108,101>>,                     \* "rakefile"
    <<118,97,103,114,97,110,116,102,105,108,101>> }         \* "vagrantfile"


(***************************************************************************)
(* Python built-ins and os.path functions used by the analyzer             *)
(***************************************************************************)
LF == 10

Min(S) == CHOOSE x \in S : \A y \in S : x <= y

Max(S) == CHOOSE x \in S : \A y \in S : x >= y

\* str < str: lexicographic on code points, a proper prefix sorts first
StrLess(a, b) ==
  \E i \in 1..Len(b) :
    /\ \A j \in 1..(i - 1) : j <= Len(a) /\ a[j] = b[j]
    /\ \/ i = Len(a) + 1
       \/ i <= Len(a) /\ a[i] < b[i]

\* the names in descending order
sorted_Reversed(S) ==
  [i \in 1..Cardinality(S) |->
     CHOOSE x \in S : Cardinality({y \in S : StrLess(x, y)}) = i - 1]

\* sorted(names): the names in ascending order
sorted(S) ==
  [i \in 1..Cardinality(S) |->
     CHOOSE x \in S : Cardinality({y \in S : StrLess(y, x)}) = i - 1]

\* str.lower() on the ASCII range the model's names are drawn from
lower(s) == [i \in 1..Len(s) |-> IF s[i] \in 65..90 THEN s[i] + 32 ELSE s[i]]

\* os.path.basename(path): the last component
basename(path) == path[Len(path)]

\* os.path.join(path, item)
join(path, item) == Append(path, item)

\* os.path.relpath(full_path, root_path) for a path beneath root_path
relpath(full_path, root) == SubSeq(full_path, Len(root) + 1, Len(full_path))

\* os.path.splitext(filename)[1]: from the last dot on, unless only dots
\* precede it (a leading-dot name such as ".git" has no extension)
splitext(filename) ==
  LET dots == {i \in 1..Len(filename) : filename[i] = 46}
  IN  IF dots = {} THEN <<>>
      ELSE LET d == Max(dots)
           IN  IF \E j \in 1..(d - 1) : filename[j] # 46
               THEN SubSeq(filename, d, Len(filename))
               ELSE <<>>

\* the indices of a sequence, in order
indices(s) == [i \in 1..Len(s) |-> i]

\* str.split('\n')
split(s) ==
  LET P == SelectSeq(indices(s), LAMBDA i : s[i] = LF)
      n == Len(P)
      first(k) == IF k = 1 THEN 1 ELSE P[k - 1] + 1
      last(k) == IF k = n + 1 THEN Len(s) ELSE P[k] - 1
  IN  [k \in 1..(n + 1) |-> SubSeq(s, first(k), last(k))]

\* '\n'.join(parts)
RECURSIVE joinLF(_)
joinLF(parts) ==
  IF parts = <<>> THEN <<>>
  ELSE IF Len(parts) = 1 THEN parts[1]
  ELSE parts[1] \o <<LF>> \o joinLF(Tail(parts))

\* str.isspace() of one character
isspace(c) ==
  c \in (9..13) \cup (28..32) \cup {133, 160, 5760} \cup (8192..8202)
        \cup {8232, 8233, 8239, 8287, 12288}

\* str.strip()
strip(s) ==
  LET keep == {i \in 1..Len(s) : ~isspace(s[i])}
  IN  IF keep = {} THEN <<>> ELSE SubSeq(s, Min(keep), Max(keep))

\* str(n) for n >= 0
RECURSIVE str(_)
str(n) == IF n < 10 THEN <<48 + n>> ELSE str(n \div 10) \o <<48 + (n % 10)>>

\* bytes begins with a UTF-8 sequence of two bytes
utf8_two(bytes) ==
  /\ bytes[1] \in 194..223
  /\ Len(bytes) >= 2
  /\ bytes[2] \in 128..191

\* bytes begins with a UTF-8 sequence of three bytes (overlong forms and
\* surrogates are rejected)
utf8_three(bytes) ==
  /\ bytes[1] \in 224..239
  /\ Len(bytes) >= 3
  /\ bytes[2] \in 128..191
  /\ bytes[3] \in 128..191
  /\ bytes[1] = 224 => bytes[2] >= 160
  /\ bytes[1] = 237 => bytes[2] <= 159

\* the character a chunk of bytes begins with, if it begins with one
utf8_char(bytes) ==
  IF bytes[1] < 128 THEN <<bytes[1]>>
  ELSE IF utf8_two(bytes)
    THEN <<(bytes[1] - 192) * 64 + (bytes[2] - 128)>>
  ELSE IF utf8_three(bytes)
    THEN <<(bytes[1] - 224) * 4096 + (bytes[2] - 128) * 64 + (bytes[3] - 128)>>
  ELSE <<>>

\* the number of bytes of the character a chunk begins with
utf8_width(bytes) ==
  IF bytes[1] < 128 THEN 1
  ELSE IF utf8_two(bytes) THEN 2
  ELSE IF utf8_three(bytes) THEN 3
  ELSE 0

\* the chunks of bytes: each begins at a byte that is no continuation byte
\* (128..191) and ends before the next such byte
utf8_chunks(bytes) ==
  LET S == SelectSeq(indices(bytes), LAMBDA i : bytes[i] \notin 128..191)
  IN  [k \in 1..Len(S) |->
         SubSeq(bytes, S[k], IF k = Len(S) THEN Len(bytes) ELSE S[k + 1] - 1)]

\* bytes.decode('utf-8') over sequences of up to three bytes (the files of
\* the model hold no lead byte of a longer sequence): decode_ok = FALSE is
\* UnicodeDecodeError.  The bytes decode if they begin with no continuation
\* byte and each chunk is exactly one character.
decode_ok(bytes) ==
  \/ bytes = <<>>
  \/ /\ bytes[1] \notin 128..191
     /\ \A k \in 1..Len(utf8_chunks(bytes)) :
          utf8_width(utf8_chunks(bytes)[k]) = Len(utf8_chunks(bytes)[k])

\* the text of bytes up to the first byte that cannot be decoded
decode_text(bytes) ==
  IF bytes = <<>> \/ bytes[1] \in 128..191 THEN <<>>
  ELSE
    LET chunks == utf8_chunks(bytes)
        bad == {k \in 1..Len(chunks) : utf8_width(chunks[k]) # Len(chunks[k])}
        m == IF bad = {} THEN Len(chunks) ELSE Min(bad) - 1
    IN  [k \in 1..m |-> utf8_char(chunks[k])[1]]
          \o (IF m < Len(chunks) THEN utf8_char(chunks[m + 1]) ELSE <<>>)

decode(bytes) == [ok |-> decode_ok(bytes), text |-> decode_text(bytes)]

\* universal-newline translation of text-mode open(): "\r\n" and "\r" are
\* read as "\n"
newlines(text) ==
  LET kept == SelectSeq(indices(text),
                        LAMBDA i : ~(text[i] = LF /\ i > 1 /\ text[i - 1] = 13))
  IN  [k \in 1..Len(kept) |-> IF text[kept[k]] = 13 THEN LF ELSE text[kept[k]]]

\* the number of lines a text-mode file iteration yields: one per line
\* feed, plus one for an unterminated last line
line_count(text) ==
  Len(SelectSeq(text, LAMBDA c : c = LF))
    + (IF text # <<>> /\ text[Len(text)] # LF THEN 1 ELSE 0)

\* self.skipped_files[key] = value on a dict kept in insertion order
DictSet(d, key, value) ==
  IF \E i \in 1..Len(d) : d[i][1] = key
  THEN [i \in 1..Len(d) |-> IF d[i][1] = key THEN <<key, value>> ELSE d[i]]
  ELSE Append(d, <<key, value>>)

DictKeys(d) == {d[i][1] : i \in 1..Len(d)}

DictGet(d, key) == d[CHOOSE i \in 1..Len(d) : d[i][1] = key][2]

(***************************************************************************)
(* Names of the entries of the model's trees                               *)
(***************************************************************************)
n_proj == <<112,114,111,106>>   \* "proj"

n_app_py == <<97,112,112,46,112,121>>   \* "app.py"

n_README_md == <<82,69,65,68,77,69,46,109,100>>   \* "README.md"

n_Dockerfile == <<68,111,99,107,101,114,102,105,108,101>>   \* "Dockerfile"

n_config_json == <<99,111,110,102,105,103,46,106,115,111,110>>   \* "config.json"

n_data_bin == <<100,97,116,97,46,98,105,110>>   \* "data.bin"

n_dotgit == <<46,103,105,116>>   \* ".git"

n_config == <<99,111,110,102,105,103>>   \* "config"

n_sub == <<115,117,98>>   \* "sub"

n_a_py == <<97,46,112,121>>   \* "a.py"

n_b_py == <<98,46,112,121>>   \* "b.py"

n_c_py == <<99,46,112,121>>   \* "c.py"

n_deep == <<100,101,101,112>>   \* "deep"

n_d_py == <<100,46,112,121>>   \* "d.py"

n_e_py == <<101,46,112,121>>   \* "e.py"

n_z_py == <<122,46,112,121>>   \* "z.py"

n_node_modules == <<110,111,100,101,95,109,111,100,117,108,101,115>>   \* "node_modules"

n_x_js == <<120,46,106,115>>   \* "x.js"

n_build == <<98,117,105,108,100>>   \* "build"

n_notes_xyz == <<110,111,116,101,115,46,120,121,122>>   \* "notes.xyz"

n_MAIN_PY == <<77,65,73,78,46,80,89>>   \* "MAIN.PY"

n_locked == <<108,111,99,107,101,100>>   \* "locked"

n_short_py == <<115,104,111,114,116,46,112,121>>   \* "short.py"

n_blank_py == <<98,108,97,110,107,46,112,121>>   \* "blank.py"

n_big_py == <<98,105,103,46,112,121>>   \* "big.py"

n_sock == <<115,111,99,107>>   \* "sock"

n_dotenv == <<46,101,110,118>>   \* ".env"

n_broken == <<98,114,111,107,101,110>>   \* "broken"

n_uni_md == <<117,110,105,46,109,100>>   \* "uni.md"

n_tail_py == <<116,97,105,108,46,112,121>>   \* "tail.py"

n_bad_py == <<98,97,100,46,112,121>>   \* "bad.py"

n_big_bin == <<98,105,103,46,98,105,110>>   \* "big.bin"

n_edge_py == <<101,100,103,101,46,112,121>>   \* "edge.py"

n_empty_py == <<101,109,112,116,121,46,112,121>>   \* "empty.py"


(***************************************************************************)
(* Bounds of the model                                                     *)
(***************************************************************************)
\* max_files is drawn from 1..MaxFilesOpt
MaxFilesOpt == 3

\* max_depth is None or drawn from 0..MaxDepthOpt
MaxDepthOpt == 1

\* max_lines is MaxLinesSmall or the default
MaxLinesSmall == 3

\* max_file_size is MaxFileSizeSmall or the default
MaxFileSizeSmall == 12

\* collect_code_files is invoked at most MaxRuns times on one analyzer
MaxRuns == 2

\* process_content is called on every content of at most MaxContentLen
\* characters
MaxContentLen == 5

\* the largest whole number of KB in a "file too large" reason
MaxKB == 1

(***************************************************************************)
(* The directory trees the analyzer is run on.  An entry is a directory, a *)
(* regular file or something else (a socket, a dangling link); listing     *)
(* says what os.listdir does on a directory, readable whether open()       *)
(* succeeds on a file.  The tree does not change during a run.             *)
(***************************************************************************)
Dir(listing) ==
  [kind |-> "dir", bytes |-> <<>>, readable |-> TRUE, listing |-> listing]

File(bytes) ==
  [kind |-> "file", bytes |-> bytes, readable |-> TRUE, listing |-> "ok"]

Unreadable(bytes) ==
  [kind |-> "file", bytes |-> bytes, readable |-> FALSE, listing |-> "ok"]

Other ==
  [kind |-> "other", bytes |-> <<>>, readable |-> FALSE, listing |-> "ok"]

\* a regular file given as the root: os.listdir raises NotADirectoryError
NotADirectory(bytes) ==
  [kind |-> "file", bytes |-> bytes, readable |-> TRUE, listing |-> "OSError"]

\* n lines "a\n"
TextLines(n) == [i \in 1..(2 * n) |-> IF i % 2 = 1 THEN 97 ELSE LF]

\* n empty lines
BlankLines(n) == [i \in 1..n |-> LF]

\* lines "a\n" making up exactly MaxFileSizeSmall bytes, the last one without
\* its line feed if that number is odd
EdgeBytes == [i \in 1..MaxFileSizeSmall |-> IF i % 2 = 1 THEN 97 ELSE LF]

\* five lines, the first holding bytes outside ASCII
BinaryBytes == <<200, 201>> \o TextLines(5)

Root == <<n_proj>>

\* the scenario of the classification rules: one directory of files
TreeFlat ==
  (Root :> Dir("ok"))
  @@ (<<n_proj, n_dotgit>> :> Dir("ok"))
  @@ (<<n_proj, n_dotgit, n_config>> :> File(TextLines(5)))
  @@ (<<n_proj, n_Dockerfile>> :> File(TextLines(5)))
  @@ (<<n_proj, n_MAIN_PY>> :> File(TextLines(5)))
  @@ (<<n_proj, n_README_md>> :> File(TextLines(5)))
  @@ (<<n_proj, n_app_py>> :> File(TextLines(6)))
  @@ (<<n_proj, n_config_json>> :> File(TextLines(5)))
  @@ (<<n_proj, n_data_bin>> :> File(BinaryBytes))
  @@ (<<n_proj, n_notes_xyz>> :> File(TextLines(5)))
  @@ (<<n_proj, n_short_py>> :> File(TextLines(2)))

\* nested directories, one of them excluded by name below the first level
TreeNested ==
  (Root :> Dir("ok"))
  @@ (<<n_proj, n_a_py>> :> File(TextLines(5)))
  @@ (<<n_proj, n_sub>> :> Dir("ok"))
  @@ (<<n_proj, n_sub, n_b_py>> :> File(TextLines(5)))
  @@ (<<n_proj, n_sub, n_build>> :> Dir("ok"))
  @@ (<<n_proj, n_sub, n_build, n_x_js>> :> File(TextLines(5)))
  @@ (<<n_proj, n_sub, n_c_py>> :> File(TextLines(5)))
  @@ (<<n_proj, n_sub, n_deep>> :> Dir("ok"))
  @@ (<<n_proj, n_sub, n_deep, n_d_py>> :> File(TextLines(5)))
  @@ (<<n_proj, n_z_py>> :> File(TextLines(5)))

\* entries that are skipped or fail without stopping the run
TreeMisc ==
  (Root :> Dir("ok"))
  @@ (<<n_proj, n_dotenv>> :> File(TextLines(5)))
  @@ (<<n_proj, n_big_py>> :> File(TextLines(7)))
  @@ (<<n_proj, n_blank_py>> :> File(BlankLines(5)))
  @@ (<<n_proj, n_e_py>> :> Unreadable(TextLines(5)))
  @@ (<<n_proj, n_locked>> :> Dir("PermissionError"))
  @@ (<<n_proj, n_locked, n_a_py>> :> File(TextLines(5)))
  @@ (<<n_proj, n_node_modules>> :> Dir("ok"))
  @@ (<<n_proj, n_node_modules, n_x_js>> :> File(TextLines(5)))
  @@ (<<n_proj, n_sock>> :> Other)
  @@ (<<n_proj, n_z_py>> :> File(TextLines(5)))

\* a directory whose listing fails with an OSError that is neither
\* PermissionError nor FileNotFoundError
TreeBroken ==
  (Root :> Dir("ok"))
  @@ (<<n_proj, n_a_py>> :> File(TextLines(5)))
  @@ (<<n_proj, n_broken>> :> Dir("OSError"))
  @@ (<<n_proj, n_z_py>> :> File(TextLines(5)))

\* files told apart by their bytes: "é" (195, 169) at the start of uni.md
\* and after the sniffed chunk of tail.py, a byte that is not UTF-8 after the
\* sniffed chunk of bad.py, a file of more than MaxFileSizeSmall bytes that
\* is not text, a file of exactly MaxFileSizeSmall bytes, and an empty file
TreeBytes ==
  (Root :> Dir("ok"))
  @@ (<<n_proj, n_bad_py>> :> File(TextLines(5) \o <<200>>))
  @@ (<<n_proj, n_big_bin>> :> File(<<200, 201>> \o EdgeBytes))
  @@ (<<n_proj, n_edge_py>> :> File(EdgeBytes))
  @@ (<<n_proj, n_empty_py>> :> File(<<>>))
  @@ (<<n_proj, n_tail_py>> :> File(TextLines(5) \o <<195, 169>>))
  @@ (<<n_proj, n_uni_md>> :> File(<<195, 169, LF>> \o TextLines(5)))

\* the root exists but is a regular file
TreeRootFile == (Root :> NotADirectory(TextLines(5)))

Trees ==
  {TreeFlat, TreeNested, TreeMisc, TreeBroken, TreeBytes, TreeRootFile}

\* defaults of ProjectAnalyzer.__init__
DefaultMaxLines == 500

DefaultMaxFileSize == 1048576

VARIABLES
  fs,             \* the directory tree
  root_path,      \* self.root_path
  exclude_dirs,   \* self.exclude_dirs
  exclude_files,  \* self.exclude_files
  max_file_size,  \* self.max_file_size
  max_files,      \* self.max_files
  max_depth,      \* self.max_depth: <<>> is None, <<d>> is d
  max_lines,      \* self.max_lines
  files_analyzed, \* self.files_analyzed
  total_size,     \* self.total_size
  skipped_files,  \* self.skipped_files, in insertion order
  code_files,     \* the list collect_code_files builds and returns
  stack,          \* the calls of process_directory in progress
  pc,             \* "idle", "collecting", "done" or "raised"
  lines,          \* the lines of the last generate_tree
  listed,         \* the directories os.listdir was called on in this run
  runs,           \* what each finished collect_code_files left behind
  call_content,   \* the argument of a call of process_content
  call_result,    \* <<>> before the call returns, <<result>> after
  caller,         \* "none", or the method that called collect_code_files
  report,         \* <<>>, or <<text>>: what the last report method returned
  summary,        \* <<>>, or <<text>>: what the last generate_summary returned
  output_path,    \* <<>>, or the path save_report is going to write
  skipped_file_limit, \* the argument of the last generate_summary
  module_dirs,    \* the module-level set DEFAULT_EXCLUDE_DIRS
  other           \* <<>>, or the state of a second analyzer that is not
                  \* taking steps at the moment

vars ==
  <<fs, root_path, exclude_dirs, exclude_files, max_file_size, max_files,
    max_depth, max_lines, files_analyzed, total_size, skipped_files,
    code_files, stack, pc, lines, listed, runs,
    call_content, call_result, caller, report, summary, output_path,
    skipped_file_limit, module_dirs, other>>

config == <<fs, root_path, exclude_dirs, exclude_files, max_file_size,
            max_files, max_depth, max_lines>>

call == <<call_content, call_result>>

\* what the steps of one collect_code_files leave alone
ext == <<caller, report, summary, output_path, skipped_file_limit,
         module_dirs, other>>

(***************************************************************************)
(* The file system as the analyzer sees it                                 *)
(***************************************************************************)
\* os.path.isdir
isdir(path) == path \in DOMAIN fs /\ fs[path].kind = "dir"

\* os.path.isfile
isfile(path) == path \in DOMAIN fs /\ fs[path].kind = "file"

\* os.path.getsize
getsize(path) == Len(fs[path].bytes)

\* the names os.listdir(path) returns, in no particular order
listdir(path) ==
  {q[Len(q)] : q \in {p \in DOMAIN fs : /\ Len(p) = Len(path) + 1
                                         /\ SubSeq(p, 1, Len(path)) = path}}

\* f.read() and the iteration over f of a file opened with encoding utf-8
read_text(path) ==
  CHOOSE rd \in {[ok |-> fs[path].readable /\ r.ok, text |-> newlines(r.text)] :
                   r \in {decode(fs[path].bytes)}} : TRUE

(***************************************************************************)
(* ProjectAnalyzer                                                         *)
(***************************************************************************)
\* the depth test one level late
too_deep_OffByOne(current_depth) ==
  max_depth # <<>> /\ current_depth > max_depth[1] + 1

\* self.max_depth is not None and current_depth > self.max_depth
too_deep(current_depth) ==
  max_depth # <<>> /\ current_depth > max_depth[1]

\* the appended line without its leading line feed
marker_NoBlankLine(n) ==
  <<46,46,46,32,91,67,111,110,116,101,110,116,32,116,114,117,110,99,97,
    116,101,100,32,45,32,101,120,99,101,101,100,101,100,32>>
  \o str(n) \o <<32,108,105,110,101,115,93,32,46,46,46>>

\* the line process_content appends
marker(n) ==
  <<10,46,46,46,32,91,67,111,110,116,101,110,116,32,116,114,117,110,99,97,
    116,101,100,32,45,32,101,120,99,101,101,100,101,100,32>>
  \o str(n) \o <<32,108,105,110,101,115,93,32,46,46,46>>

\* process_content truncating a content of exactly n segments as well
process_content_AtLeast(content, n) ==
  LET parts == split(content)
  IN  IF Len(parts) >= n
      THEN joinLF(Append(SubSeq(parts, 1, n), marker(n)))
      ELSE content

process_content(content, n) ==
  LET parts == split(content)
  IN  IF Len(parts) > n
      THEN joinLF(Append(SubSeq(parts, 1, n), marker(n)))
      ELSE content

\* is_text_file testing every byte of the file
is_text_file_WholeFile(file_path) ==
  IF fs[file_path].readable
  THEN \A i \in 1..Len(fs[file_path].bytes) : fs[file_path].bytes[i] < 128
  ELSE FALSE

is_text_file(file_path) ==
  IF fs[file_path].readable
  THEN LET chunk == SubSeq(fs[file_path].bytes, 1,
                            Min({CHUNK_BYTES, Len(fs[file_path].bytes)}))
       IN  \A i \in 1..Len(chunk) : chunk[i] < 128
  ELSE FALSE

\* is_code_file comparing the file name without lower()
is_code_file_CaseSensitive(file_path, skipped) ==
  LET filename == basename(file_path)
      rd == read_text(file_path)
  IN  IF filename \in exclude_files
        THEN [result |-> FALSE, skipped |-> skipped]
      ELSE IF ~is_text_file(file_path)
        THEN [result |-> FALSE,
              skipped |-> DictSet(skipped, file_path, "binary file")]
      ELSE IF ~rd.ok
        THEN [result |-> FALSE, skipped |-> skipped]
      ELSE IF line_count(rd.text) < MIN_LINES_PER_FILE
        THEN [result |-> FALSE,
              skipped |-> DictSet(skipped, file_path,
                            "too few lines (" \o ToString(line_count(rd.text))
                              \o ")")]
      ELSE IF filename \in NO_EXT_CODE_FILES
        THEN [result |-> TRUE, skipped |-> skipped]
      ELSE IF splitext(filename) \in CODE_FILE_EXTENSIONS
        THEN [result |-> TRUE, skipped |-> skipped]
      ELSE [result |-> FALSE,
            skipped |-> DictSet(skipped, file_path, "unknown type")]

\* is_code_file returns result and leaves skipped as self.skipped_files
is_code_file(file_path, skipped) ==
  LET filename == basename(file_path)
      rd == read_text(file_path)
  IN  IF filename \in exclude_files
        THEN [result |-> FALSE, skipped |-> skipped]
      ELSE IF ~is_text_file(file_path)
        THEN [result |-> FALSE,
              skipped |-> DictSet(skipped, file_path, "binary file")]
      ELSE IF ~rd.ok
        THEN [result |-> FALSE, skipped |-> skipped]
      ELSE IF line_count(rd.text) < MIN_LINES_PER_FILE
        THEN [result |-> FALSE,
              skipped |-> DictSet(skipped, file_path,
                            "too few lines (" \o ToString(line_count(rd.text))
                              \o ")")]
      ELSE IF lower(filename) \in NO_EXT_CODE_FILES
        THEN [result |-> TRUE, skipped |-> skipped]
      ELSE IF lower(splitext(filename)) \in CODE_FILE_EXTENSIONS
        THEN [result |-> TRUE, skipped |-> skipped]
      ELSE [result |-> FALSE,
            skipped |-> DictSet(skipped, file_path, "unknown type")]

\* str(e) of the exception os.listdir raises
strerror(kind) == "[" \o kind \o "]"

\* an except clause that returns without appending a line
tree_error_NoLine(path, prefix) == <<>>

\* except (PermissionError, FileNotFoundError, OSError) as e: the line
\* f"{prefix}├── [Error: {str(e)}]" is appended and add_to_tree returns
tree_error(path, prefix) ==
  <<[kind |-> "error", path |-> path,
     text |-> prefix \o <<9500,9472,9472,32>>,
     message |-> "[Error: " \o strerror(fs[path].listing) \o "]"]>>

\* generate_tree: add_to_tree(path, prefix, current_depth) gives the lines it
\* appends; each line carries the entry it was written for
RECURSIVE add_to_tree(_, _, _), tree_items(_, _, _, _, _)
add_to_tree(path, prefix, current_depth) ==
  IF too_deep(current_depth) THEN <<>>
  ELSE IF fs[path].listing # "ok"
    THEN tree_error(path, prefix)
  ELSE LET contents == SelectSeq(sorted(listdir(path)),
                                 LAMBDA item : item \notin exclude_dirs)
       IN  tree_items(path, prefix, current_depth, contents, 1)

tree_items(path, prefix, current_depth, contents, i) ==
  IF i > Len(contents) THEN <<>>
  ELSE
    LET item == contents[i]
        is_last == (i = Len(contents))
        current_prefix == IF is_last THEN <<9492,9472,9472,32>>   \* "└── "
                                     ELSE <<9500,9472,9472,32>>   \* "├── "
        full_path == join(path, item)
        display_name == IF isdir(full_path) THEN item \o <<47>> ELSE item
        next_prefix == prefix \o (IF is_last THEN <<32,32,32,32>>
                                             ELSE <<9474,32,32,32>>)
    IN  <<[kind |-> "entry", path |-> full_path,
           text |-> prefix \o current_prefix \o display_name,
           message |-> ""]>>
        \o (IF isdir(full_path)
            THEN add_to_tree(full_path, next_prefix, current_depth + 1)
            ELSE <<>>)
        \o tree_items(path, prefix, current_depth, contents, i + 1)

generate_tree ==
  <<[kind |-> "root", path |-> root_path, text |-> basename(root_path),
     message |-> ""]>>
  \o add_to_tree(root_path, <<>>, 0)

\* f"{file_size / 1024:.1f}": tenths of a KB, ties rounded to even
kb_tenths(file_size) ==
  LET q == (file_size * 10) \div 1024
      r == (file_size * 10) % 1024
  IN  IF r > 512 \/ (r = 512 /\ q % 2 = 1) THEN q + 1 ELSE q

too_large(file_size) ==
  "file too large (" \o ToString(kb_tenths(file_size) \div 10) \o "."
    \o ToString(kb_tenths(file_size) % 10) \o "KB)"

(***************************************************************************)
(* The state machine                                                       *)
(***************************************************************************)
Init ==
  /\ fs \in Trees
  /\ root_path = Root
  /\ exclude_dirs \in {DEFAULT_EXCLUDE_DIRS, DEFAULT_EXCLUDE_DIRS \cup {n_sub}}
  /\ exclude_files \in {{}, {n_app_py}}
  /\ max_file_size \in {MaxFileSizeSmall, DefaultMaxFileSize}
  /\ max_files \in 1..MaxFilesOpt
  /\ max_depth \in {<<>>} \cup {<<d>> : d \in 0..MaxDepthOpt}
  /\ max_lines \in {MaxLinesSmall, DefaultMaxLines}
  /\ files_analyzed = 0
  /\ total_size = 0
  /\ skipped_files = <<>>
  /\ code_files = <<>>
  /\ stack = <<>>
  /\ pc = "idle"
  /\ lines = <<>>
  /\ listed = <<>>
  /\ runs = <<>>
  /\ call_content = <<>>
  /\ call_result = <<>>
  /\ caller = "none"
  /\ report = <<>>
  /\ summary = <<>>
  /\ output_path = <<>>
  /\ skipped_file_limit = 0
  /\ module_dirs = DEFAULT_EXCLUDE_DIRS
  /\ other = <<>>

Top == stack[Len(stack)]

Rest == SubSeq(stack, 1, Len(stack) - 1)

\* the frame of a call process_directory(path, current_depth)
Call(path, current_depth) ==
  [path |-> path, depth |-> current_depth, at |-> "call", items |-> <<>>]

\* the call of process_directory on the root never returns
Return_Hang ==
  /\ stack' = IF Rest = <<>> THEN stack ELSE Rest
  /\ pc' = "collecting"
  /\ runs' = runs

\* process_directory returns: the caller goes on, or collect_code_files
\* returns code_files
Return ==
  /\ stack' = Rest
  /\ pc' = IF Rest = <<>> THEN "done" ELSE "collecting"
  /\ runs' = IF Rest = <<>>
             THEN Append(runs, [code_files |-> code_files,
                                files_analyzed |-> files_analyzed,
                                total_size |-> total_size])
             ELSE runs

\* the loop of process_directory goes on with the next item
Continue ==
  /\ stack' = [stack EXCEPT ![Len(stack)].items = Tail(@)]
  /\ UNCHANGED <<pc, runs>>

InCall == pc = "collecting" /\ Top.at = "call"

InLoop == pc = "collecting" /\ Top.at = "loop" /\ Top.items # <<>>

GenerateTree ==
  /\ pc # "collecting"
  /\ lines' = generate_tree
  /\ UNCHANGED <<config, call, ext, files_analyzed, total_size, skipped_files,
                 code_files, stack, pc, listed, runs>>

\* collect_code_files without self.files_analyzed = 0
CollectStart_NoReset ==
  /\ pc # "collecting"
  /\ Len(runs) < MaxRuns
  /\ code_files' = <<>>
  /\ stack' = <<Call(root_path, 0)>>
  /\ pc' = "collecting"
  /\ listed' = <<>>
  /\ UNCHANGED <<config, call, ext, files_analyzed, total_size, skipped_files,
                 lines, runs>>

CollectStart ==
  /\ pc # "collecting"
  /\ Len(runs) < MaxRuns
  /\ code_files' = <<>>
  /\ files_analyzed' = 0
  /\ stack' = <<Call(root_path, 0)>>
  /\ pc' = "collecting"
  /\ listed' = <<>>
  /\ UNCHANGED <<config, call, ext, total_size, skipped_files, lines, runs>>

DepthReturn ==
  /\ InCall
  /\ too_deep(Top.depth)
  /\ Return
  /\ UNCHANGED <<config, call, ext, files_analyzed, total_size, skipped_files,
                 code_files, lines, listed>>

FilesReturn ==
  /\ InCall
  /\ ~too_deep(Top.depth)
  /\ files_analyzed >= max_files
  /\ Return
  /\ UNCHANGED <<config, call, ext, files_analyzed, total_size, skipped_files,
                 code_files, lines, listed>>

SizeReturn ==
  /\ InCall
  /\ ~too_deep(Top.depth)
  /\ files_analyzed < max_files
  /\ total_size > MAX_TOTAL_SIZE_BYTES
  /\ Return
  /\ UNCHANGED <<config, call, ext, files_analyzed, total_size, skipped_files,
                 code_files, lines, listed>>

\* the file count tested in the call on the root only
Listing_RootOnlyCheck ==
  /\ InCall
  /\ ~too_deep(Top.depth)
  /\ Top.depth = 0 => files_analyzed < max_files
  /\ total_size <= MAX_TOTAL_SIZE_BYTES
  /\ listed' = Append(listed, Top.path)

\* none of the three early returns is taken: os.listdir is called
Listing ==
  /\ InCall
  /\ ~too_deep(Top.depth)
  /\ files_analyzed < max_files
  /\ total_size <= MAX_TOTAL_SIZE_BYTES
  /\ listed' = Append(listed, Top.path)

ListDirectory ==
  /\ Listing
  /\ fs[Top.path].listing = "ok"
  /\ stack' = [stack EXCEPT ![Len(stack)] =
                 [@ EXCEPT !.at = "loop", !.items = sorted(listdir(Top.path))]]
  /\ UNCHANGED <<config, call, ext, files_analyzed, total_size, skipped_files,
                 code_files, pc, lines, runs>>

\* except (PermissionError, FileNotFoundError)
ListDirectoryError ==
  /\ Listing
  /\ fs[Top.path].listing \in {"PermissionError", "FileNotFoundError"}
  /\ skipped_files' = DictSet(skipped_files, Top.path,
                        "directory error: " \o strerror(fs[Top.path].listing))
  /\ Return
  /\ UNCHANGED <<config, call, ext, files_analyzed, total_size, code_files, lines>>

\* any other OSError leaves every process_directory in progress and
\* collect_code_files itself
ListDirectoryRaise ==
  /\ Listing
  /\ fs[Top.path].listing \notin {"ok", "PermissionError", "FileNotFoundError"}
  /\ stack' = <<>>
  /\ pc' = "raised"
  /\ UNCHANGED <<config, call, ext, files_analyzed, total_size, skipped_files,
                 code_files, lines, runs>>

LoopEnd ==
  /\ pc = "collecting" /\ Top.at = "loop" /\ Top.items = <<>>
  /\ Return
  /\ UNCHANGED <<config, call, ext, files_analyzed, total_size, skipped_files,
                 code_files, lines, listed>>

ExcludedItem ==
  /\ InLoop
  /\ Head(Top.items) \in exclude_dirs
  /\ Continue
  /\ UNCHANGED <<config, call, ext, files_analyzed, total_size, skipped_files,
                 code_files, lines, listed>>

\* the item the loop is at, whatever its name
Item_NoExclusion(full_path) ==
  /\ InLoop
  /\ full_path = join(Top.path, Head(Top.items))

\* the item the loop is at, once it is found not to be excluded
Item(full_path) ==
  /\ InLoop
  /\ Head(Top.items) \notin exclude_dirs
  /\ full_path = join(Top.path, Head(Top.items))

\* a directory is entered whatever its name
DirectoryItem_AnyName ==
  \E full_path \in DOMAIN fs :
    /\ InLoop
    /\ full_path = join(Top.path, Head(Top.items))
    /\ isdir(full_path)
    /\ stack' = Append([stack EXCEPT ![Len(stack)].items = Tail(@)],
                       Call(full_path, Top.depth + 1))
    /\ UNCHANGED <<config, call, ext, files_analyzed, total_size, skipped_files,
                   code_files, pc, lines, listed, runs>>

DirectoryItem ==
  \E full_path \in DOMAIN fs :
    /\ Item(full_path)
    /\ isdir(full_path)
    /\ stack' = Append([stack EXCEPT ![Len(stack)].items = Tail(@)],
                       Call(full_path, Top.depth + 1))
    /\ UNCHANGED <<config, call, ext, files_analyzed, total_size, skipped_files,
                   code_files, pc, lines, listed, runs>>

OtherItem ==
  \E full_path \in DOMAIN fs :
    /\ Item(full_path)
    /\ ~isdir(full_path) /\ ~isfile(full_path)
    /\ Continue
    /\ UNCHANGED <<config, call, ext, files_analyzed, total_size, skipped_files,
                   code_files, lines, listed>>

\* the size test with >= in place of >
FileTooLarge_AtLeast ==
  \E full_path \in DOMAIN fs :
    /\ Item(full_path)
    /\ isfile(full_path)
    /\ getsize(full_path) >= max_file_size
    /\ skipped_files' = DictSet(skipped_files, full_path,
                                too_large(getsize(full_path)))
    /\ Continue
    /\ UNCHANGED <<config, call, ext, files_analyzed, total_size, code_files, lines,
                   listed>>

FileTooLarge ==
  \E full_path \in DOMAIN fs :
    /\ Item(full_path)
    /\ isfile(full_path)
    /\ getsize(full_path) > max_file_size
    /\ skipped_files' = DictSet(skipped_files, full_path,
                                too_large(getsize(full_path)))
    /\ Continue
    /\ UNCHANGED <<config, call, ext, files_analyzed, total_size, code_files, lines,
                   listed>>

\* a rejected file is recorded as skipped and appended all the same
FileRejected_FallsThrough ==
  \E full_path \in DOMAIN fs :
    /\ Item(full_path)
    /\ isfile(full_path)
    /\ getsize(full_path) <= max_file_size
    /\ \E accepted \in {is_code_file(full_path, skipped_files)} :
         /\ ~accepted.result
         /\ skipped_files' = accepted.skipped
    /\ code_files' = Append(code_files,
                            <<relpath(full_path, root_path), <<>>>>)
    /\ Continue
    /\ UNCHANGED <<config, call, ext, files_analyzed, total_size, lines, listed>>

FileRejected ==
  \E full_path \in DOMAIN fs :
    /\ Item(full_path)
    /\ isfile(full_path)
    /\ getsize(full_path) <= max_file_size
    /\ \E accepted \in {is_code_file(full_path, skipped_files)} :
         /\ ~accepted.result
         /\ skipped_files' = accepted.skipped
    /\ Continue
    /\ UNCHANGED <<config, call, ext, files_analyzed, total_size, code_files, lines,
                   listed>>

\* a file of which nothing but white space is left gets a skip reason
FileAccepted_RecordsEmpty ==
  \E full_path \in DOMAIN fs :
    /\ Item(full_path)
    /\ isfile(full_path)
    /\ getsize(full_path) <= max_file_size
    /\ \E accepted \in {is_code_file(full_path, skipped_files)} :
       \E rd \in {read_text(full_path)} :
       \E content \in {process_content(rd.text, max_lines)} :
         /\ accepted.result
         /\ IF ~rd.ok
             THEN /\ skipped_files' =
                       DictSet(accepted.skipped,
                               full_path,
                               IF fs[full_path].readable
                               THEN "encoding error: [UnicodeDecodeError]"
                               ELSE "permission denied")
                  /\ UNCHANGED <<code_files, files_analyzed, total_size>>
           ELSE IF Len(strip(content)) = 0
             THEN /\ skipped_files' =
                       DictSet(accepted.skipped,
                               full_path, "empty content")
                  /\ UNCHANGED <<code_files, files_analyzed, total_size>>
           ELSE /\ code_files' =
                     Append(code_files,
                            <<relpath(full_path, root_path), content>>)
                /\ files_analyzed' = files_analyzed + 1
                /\ total_size' = total_size + Len(content)
                /\ skipped_files' =
                     accepted.skipped
    /\ Continue
    /\ UNCHANGED <<config, call, ext, lines, listed>>

\* is_code_file returned True: the file is read, truncated and, unless
\* nothing but white space is left of it, appended
FileAccepted ==
  \E full_path \in DOMAIN fs :
    /\ Item(full_path)
    /\ isfile(full_path)
    /\ getsize(full_path) <= max_file_size
    /\ \E accepted \in {is_code_file(full_path, skipped_files)} :
       \E rd \in {read_text(full_path)} :
       \E content \in {process_content(rd.text, max_lines)} :
         /\ accepted.result
         /\ IF ~rd.ok
             THEN /\ skipped_files' =
                       DictSet(accepted.skipped,
                               full_path,
                               IF fs[full_path].readable
                               THEN "encoding error: [UnicodeDecodeError]"
                               ELSE "permission denied")
                  /\ UNCHANGED <<code_files, files_analyzed, total_size>>
           ELSE IF Len(strip(content)) = 0
             THEN /\ skipped_files' =
                       accepted.skipped
                  /\ UNCHANGED <<code_files, files_analyzed, total_size>>
           ELSE /\ code_files' =
                     Append(code_files,
                            <<relpath(full_path, root_path), content>>)
                /\ files_analyzed' = files_analyzed + 1
                /\ total_size' = total_size + Len(content)
                /\ skipped_files' =
                     accepted.skipped
    /\ Continue
    /\ UNCHANGED <<config, call, ext, lines, listed>>

Next ==
  \/ GenerateTree
  \/ CollectStart
  \/ DepthReturn
  \/ FilesReturn
  \/ SizeReturn
  \/ ListDirectory
  \/ ListDirectoryError
  \/ ListDirectoryRaise
  \/ LoopEnd
  \/ ExcludedItem
  \/ DirectoryItem
  \/ OtherItem
  \/ FileTooLarge
  \/ FileRejected
  \/ FileAccepted

Spec == Init /\ [][Next]_vars

\* a step of a call of process_directory
Running ==
  \/ DepthReturn
  \/ FilesReturn
  \/ SizeReturn
  \/ ListDirectory
  \/ ListDirectoryError
  \/ ListDirectoryRaise
  \/ LoopEnd
  \/ ExcludedItem
  \/ DirectoryItem
  \/ OtherItem
  \/ FileTooLarge
  \/ FileRejected
  \/ FileAccepted

\* the analyzers constructed without exclude_dirs and exclude_files
InitLive ==
  /\ Init
  /\ exclude_dirs = DEFAULT_EXCLUDE_DIRS
  /\ exclude_files = {}

\* collect_code_files is sequential code: a call of process_directory that
\* has a step to take takes it
SpecLive == InitLive /\ [][Next]_vars /\ WF_vars(Running)

(***************************************************************************)
(* process_content on its own: called once on a content drawn from the     *)
(* letter a, the line feed and the space, or on an earlier result          *)
(***************************************************************************)
ShortContents ==
  UNION {[1..n -> {97, LF, 32}] : n \in 0..MaxContentLen}

\* the short contents, and what process_content has made of them before:
\* a content can be one that was truncated already
Contents ==
  ShortContents
    \cup {process_content(content, n) :
            content \in ShortContents, n \in 1..MaxLinesSmall}

InitContent ==
  /\ call_content \in Contents
  /\ call_result = <<>>
  /\ max_lines \in 1..MaxLinesSmall
  /\ fs = TreeFlat
  /\ root_path = Root
  /\ exclude_dirs = DEFAULT_EXCLUDE_DIRS
  /\ exclude_files = {}
  /\ max_file_size = DefaultMaxFileSize
  /\ max_files = MaxFilesOpt
  /\ max_depth = <<>>
  /\ files_analyzed = 0
  /\ total_size = 0
  /\ skipped_files = <<>>
  /\ code_files = <<>>
  /\ stack = <<>>
  /\ pc = "idle"
  /\ lines = <<>>
  /\ listed = <<>>
  /\ runs = <<>>
  /\ caller = "none"
  /\ report = <<>>
  /\ summary = <<>>
  /\ output_path = <<>>
  /\ skipped_file_limit = 0
  /\ module_dirs = DEFAULT_EXCLUDE_DIRS
  /\ other = <<>>

ProcessContent ==
  /\ call_result = <<>>
  /\ call_result' = <<process_content(call_content, max_lines)>>
  /\ UNCHANGED <<config, ext, call_content, files_analyzed, total_size, skipped_files,
                 code_files, stack, pc, lines, listed, runs>>

SpecContent == InitContent /\ [][ProcessContent]_vars

(***************************************************************************)
(* Properties                                                              *)
(***************************************************************************)
\* the relative paths of code_files, in order
Collected == [i \in 1..Len(code_files) |-> code_files[i][1]]

IsCollected(rel_path) == \E i \in 1..Len(code_files) : code_files[i][1] = rel_path

\* full_path lies in or is a directory below the root whose name is excluded
UnderExcludedDirectory(full_path) ==
  \E k \in (Len(root_path) + 1)..Len(full_path) :
    /\ full_path[k] \in exclude_dirs
    /\ isdir(SubSeq(full_path, 1, k))

\* p comes before q in a depth-first walk that takes the entries of every
\* directory in sorted order
PathLess(p, q) ==
  \E k \in 1..Min({Len(p), Len(q)}) :
    /\ \A j \in 1..(k - 1) : p[j] = q[j]
    /\ StrLess(p[k], q[k])

\* needle occurs in line
Mentions(line, needle) ==
  \E k \in 1..(Len(line) - Len(needle) + 1) :
    SubSeq(line, k, k + Len(needle) - 1) = needle

\* C1: a file whose basename is one of the sensitive file names is never in
\* the collected files.
C1_SensitiveNeverCollected ==
  \A i \in 1..Len(code_files) : basename(code_files[i][1]) \notin SENSITIVE_FILES

\* C2: nothing in or below a directory with an excluded name is collected or
\* shown in the tree, and no such directory is listed, at any depth and for
\* any max_depth.
C2_ExcludedDirectoriesPruned ==
  /\ \A i \in 1..Len(code_files) :
       ~UnderExcludedDirectory(root_path \o code_files[i][1])
  /\ \A i \in 1..Len(lines) :
       lines[i].kind # "root" => ~UnderExcludedDirectory(lines[i].path)
  /\ \A i \in 1..Len(listed) : ~UnderExcludedDirectory(listed[i])

\* a finished run over the nested tree that went through sub, the directory
\* holding the excluded directory build, with the tree rendered to full depth
C2_Witness ==
  /\ fs = TreeNested
  /\ pc = "done"
  /\ max_depth = <<>>
  /\ IsCollected(<<n_sub, n_b_py>>)
  /\ \E i \in 1..Len(lines) : lines[i].path = <<n_proj, n_sub, n_deep, n_d_py>>
  /\ isfile(<<n_proj, n_sub, n_build, n_x_js>>)

\* C3: the number of collected files never exceeds max_files.
C3_AtMostMaxFiles == Len(code_files) <= max_files

\* C4: during a collect, once files_analyzed has reached max_files no
\* directory is listed any more.
C4_NoListingAfterBudget ==
  [][(pc = "collecting" /\ files_analyzed >= max_files) => listed' = listed]_vars

\* a call of process_directory on a subdirectory within the depth limit is
\* about to start with the file budget used up
C4_Witness ==
  /\ pc = "collecting"
  /\ files_analyzed >= max_files
  /\ Len(stack) >= 2
  /\ Top.at = "call"
  /\ ~too_deep(Top.depth)
  /\ fs[Top.path].listing = "ok"
  /\ listdir(Top.path) # {}

\* C5: two collects on the same analyzer over the unchanged tree return the
\* same files and leave the same total_size.
C5_Idempotent ==
  Len(runs) >= 2 =>
    /\ runs[1].code_files = runs[2].code_files
    /\ runs[1].total_size = runs[2].total_size

\* the call of process_content has returned and its argument has more than
\* max_lines lines
Truncating ==
  /\ call_result # <<>>
  /\ Len(split(call_content)) > max_lines

\* C6 as stated: a content of more than max_lines lines is returned as
\* exactly max_lines + 1 lines.
C6_ExactlyOneMoreLine ==
  Truncating => Len(split(call_result[1])) = max_lines + 1

\* C6 amended: a content of more than max_lines lines is returned as exactly
\* max_lines + 2 lines: the first max_lines lines of the input, an empty
\* line, and a marker line that mentions max_lines.
C6_Truncation ==
  Truncating =>
    LET out == split(call_result[1])
    IN  /\ Len(out) = max_lines + 2
        /\ SubSeq(out, 1, max_lines) = SubSeq(split(call_content), 1, max_lines)
        /\ out[max_lines + 1] = <<>>
        /\ out[max_lines + 2] # <<>>
        /\ Mentions(out[max_lines + 2], str(max_lines))

\* a truncated content whose kept lines are not all empty
C6_Witness ==
  /\ Truncating
  /\ max_lines >= 2
  /\ \E i \in 1..max_lines : split(call_content)[i] # <<>>

\* C7: with max_depth = 0 the tree shows the direct children of the root and
\* nothing else, only files directly under the root are collected, no
\* subdirectory is listed and none raises or records an error.
C7_DepthZero ==
  max_depth = <<0>> =>
    /\ \A i \in 1..Len(lines) :
         /\ lines[i].kind = "entry" => Len(lines[i].path) = Len(root_path) + 1
         /\ lines[i].kind = "error" => lines[i].path = root_path
    /\ (lines # <<>> /\ fs[root_path].listing = "ok") =>
         {lines[i].path : i \in {j \in 1..Len(lines) : lines[j].kind = "entry"}}
           = {join(root_path, item) : item \in listdir(root_path) \ exclude_dirs}
    /\ \A i \in 1..Len(code_files) : Len(code_files[i][1]) = 1
    /\ \A i \in 1..Len(listed) : listed[i] = root_path
    /\ \A key \in DictKeys(skipped_files) : isdir(key) => key = root_path
    /\ pc = "raised" => fs[root_path].listing # "ok"

\* with max_depth = 0, a finished run over the nested tree that collected
\* the files on either side of the subdirectory, with the tree rendered
C7_Witness ==
  /\ max_depth = <<0>>
  /\ fs = TreeNested
  /\ n_sub \notin exclude_dirs
  /\ pc = "done"
  /\ lines # <<>>
  /\ Collected = <<(<<n_a_py>>), (<<n_z_py>>)>>

\* C8: the collected files are in the order of a depth-first walk that takes
\* the entries of every directory, files and subdirectories alike, in
\* sorted name order.
C8_TraversalOrder ==
  \A i, j \in 1..Len(code_files) :
    i < j => PathLess(code_files[i][1], code_files[j][1])

\* the files of a subdirectory between the files of its parent, and
\* README.md before app.py
C8_Witness ==
  \/ /\ fs = TreeNested
     /\ Collected = <<(<<n_a_py>>), <<n_sub, n_b_py>>, <<n_sub, n_c_py>>,
                      (<<n_z_py>>)>>
  \/ /\ fs = TreeFlat
     /\ \E i \in 1..Len(code_files) :
          /\ i + 1 <= Len(code_files)
          /\ code_files[i][1] = <<n_README_md>>
          /\ code_files[i + 1][1] = <<n_app_py>>

\* the basename is a recognized extensionless name or carries a recognized
\* extension, compared case-insensitively
Recognized(filename) ==
  \/ lower(filename) \in NO_EXT_CODE_FILES
  \/ lower(splitext(filename)) \in CODE_FILE_EXTENSIONS

\* the loop is at a text file of at least MIN_LINES_PER_FILE lines that is
\* neither too large nor excluded by name (by the caller or as sensitive)
AtCandidate(full_path) ==
  /\ Item(full_path)
  /\ isfile(full_path)
  /\ getsize(full_path) <= max_file_size
  /\ basename(full_path) \notin exclude_files \cup SENSITIVE_FILES
  /\ is_text_file(full_path)
  /\ read_text(full_path).ok
  /\ line_count(read_text(full_path).text) >= MIN_LINES_PER_FILE

C10_FilesAnalyzedIsCount == files_analyzed = Len(code_files)

\* a second collect on the same analyzer has collected its first file
C10_Witness ==
  /\ Len(runs) = 1
  /\ runs[1].files_analyzed >= 2
  /\ pc = "collecting"
  /\ files_analyzed = 1

\* the sum of the lengths of the contents of a list of collected files
RECURSIVE ContentLength(_)
ContentLength(files) ==
  IF files = <<>> THEN 0
  ELSE Len(files[1][2]) + ContentLength(Tail(files))

\* C11: when a collect has returned, total_size is the sum of the lengths of
\* the contents it returned, however many collects came before.
C11_TotalIsSumOfLengths ==
  pc = "done" => total_size = ContentLength(code_files)

\* C12: collect_code_files raises only if the root does not exist; every
\* other error met while listing directories or reading files ends in the
\* skip record.
C12_OnlyMissingRootIsFatal ==
  pc = "raised" => root_path \notin DOMAIN fs

\* the first CHUNK_BYTES bytes of the file can be read and are all ASCII
SniffsAsText(full_path) ==
  /\ fs[full_path].readable
  /\ \A i \in 1..Len(fs[full_path].bytes) :
       i <= CHUNK_BYTES => fs[full_path].bytes[i] \in 0..127

\* the loop is at a regular file that is not skipped for its size
Evaluated(full_path) ==
  /\ Item(full_path)
  /\ isfile(full_path)
  /\ getsize(full_path) <= max_file_size

\* the skip record of the next state gives reason for full_path
SkippedNext(full_path, reason) ==
  /\ full_path \in DictKeys(skipped_files')
  /\ DictGet(skipped_files', full_path) = reason

\* the next state has full_path as the last collected file
CollectedNext(full_path) ==
  /\ Len(code_files') = Len(code_files) + 1
  /\ code_files'[Len(code_files')][1] = relpath(full_path, root_path)

\* the outcome of the five checks, in the order of the claim, for a file
\* whose text can be decoded
InOrder(full_path) ==
  LET text == read_text(full_path).text
  IN  IF basename(full_path) \in exclude_files \cup SENSITIVE_FILES
        THEN /\ code_files' = code_files
             /\ SkippedNext(full_path, "excluded by policy")
      ELSE IF ~SniffsAsText(full_path)
        THEN /\ code_files' = code_files
             /\ SkippedNext(full_path, "binary file")
      ELSE IF line_count(text) < MIN_LINES_PER_FILE
        THEN /\ code_files' = code_files
             /\ SkippedNext(full_path, "too few lines ("
                                         \o ToString(line_count(text)) \o ")")
      ELSE IF Recognized(basename(full_path))
        THEN \/ CollectedNext(full_path)
             \/ Len(strip(process_content(text, max_lines))) = 0
      ELSE /\ code_files' = code_files
           /\ SkippedNext(full_path, "unknown type")

\* C13: the eligibility of a file is decided by the five checks in their
\* fixed order, the first failing one giving the recorded reason.
C13_ChecksInOrder ==
  [][\A full_path \in DOMAIN fs :
       (Evaluated(full_path)
          /\ (~SniffsAsText(full_path) \/ read_text(full_path).ok))
       => InOrder(full_path)]_vars

\* constants.py: known text file extensions that don't need content
\* verification
KNOWN_TEXT_EXTENSIONS ==
  { <<46,106,115,111,110>>,                                 \* ".json"
    <<46,109,100>>,                                         \* ".md"
    <<46,112,121>>,                                         \* ".py"
    <<46,113,109,100>>,                                     \* ".qmd"
    <<46,116,101,120>>,                                     \* ".tex"
    <<46,116,120,116>>,                                     \* ".txt"
    <<46,121,97,109,108>>,                                  \* ".yaml"
    <<46,121,109,108>> }                                    \* ".yml"

\* C14: a file whose extension is a known text extension is never skipped as
\* "binary file", whatever its bytes are and whether or not it can be opened.
C14_KnownTextNeverBinary ==
  \A i \in 1..Len(skipped_files) :
    lower(splitext(basename(skipped_files[i][1]))) \in KNOWN_TEXT_EXTENSIONS
      => skipped_files[i][2] # "binary file"

\* C15: a sniffed file is text exactly if the bytes of its first chunk can be
\* read and are all in 0..127, whatever comes after the chunk; a file that is
\* not text is never collected and is skipped as "binary file".
C15_SniffDecides ==
  /\ [](\A i \in 1..Len(code_files) :
          SniffsAsText(root_path \o code_files[i][1]))
  /\ [][\A full_path \in DOMAIN fs :
          (Evaluated(full_path) /\ basename(full_path) \notin exclude_files)
          => IF SniffsAsText(full_path)
             THEN ~SkippedNext(full_path, "binary file")
             ELSE /\ code_files' = code_files
                  /\ SkippedNext(full_path, "binary file")]_vars

\* tail.py, with a byte above 127 after its first chunk, is collected with
\* its "é"; uni.md, with such a byte in the chunk, is skipped as binary; the
\* empty file passed the sniff and is skipped for its line count
C15_Witness ==
  /\ fs = TreeBytes
  /\ \E i \in 1..Len(code_files) :
       /\ code_files[i][1] = <<n_tail_py>>
       /\ 233 \in {code_files[i][2][k] : k \in 1..Len(code_files[i][2])}
  /\ <<n_proj, n_uni_md>> \in DictKeys(skipped_files)
  /\ DictGet(skipped_files, <<n_proj, n_uni_md>>) = "binary file"
  /\ <<n_proj, n_empty_py>> \in DictKeys(skipped_files)
  /\ DictGet(skipped_files, <<n_proj, n_empty_py>>) = "too few lines (0)"

\* C16: once total_size exceeds MAX_TOTAL_SIZE_BYTES during
\* collect_code_files, no file is added to code_files any more.
C16_NothingAfterTotalExceeded ==
  [][(pc = "collecting" /\ total_size > MAX_TOTAL_SIZE_BYTES)
       => code_files' = code_files]_vars

\* the skip reasons of the form "file too large (a.bKB)"
TooLargeReasons ==
  {"file too large (" \o ToString(a) \o "." \o ToString(b) \o "KB)" :
     a \in 0..MaxKB, b \in 0..9}

\* C17: a file larger than max_file_size gets the skip reason
\* "file too large (...)", is neither classified nor read, leaves
\* files_analyzed and total_size as they are, and the loop goes on with the
\* next item; a file of exactly max_file_size bytes is not skipped for size.
C17_TooLargeSkipped ==
  [][\A full_path \in DOMAIN fs :
       (Item(full_path) /\ isfile(full_path))
       => IF getsize(full_path) > max_file_size
          THEN /\ \E reason \in TooLargeReasons :
                    skipped_files' = DictSet(skipped_files, full_path, reason)
               /\ UNCHANGED <<code_files, files_analyzed, total_size>>
               /\ pc' = "collecting"
               /\ stack' = [stack EXCEPT ![Len(stack)].items = Tail(@)]
          ELSE \A reason \in TooLargeReasons :
                 ~SkippedNext(full_path, reason)]_vars

\* big.bin, whose first byte is not ASCII, is skipped for its size
\* and not as a binary file; edge.py, of exactly max_file_size bytes, is
\* collected
C17_Witness ==
  /\ fs = TreeBytes
  /\ max_file_size = MaxFileSizeSmall
  /\ getsize(<<n_proj, n_edge_py>>) = max_file_size
  /\ IsCollected(<<n_edge_py>>)
  /\ <<n_proj, n_big_bin>> \in DictKeys(skipped_files)
  /\ DictGet(skipped_files, <<n_proj, n_big_bin>>) \in TooLargeReasons

\* C18: every file that is evaluated has a skip reason recorded for its path,
\* unless it is collected or nothing but white space is left of its content.
C18_IneligibleRecorded ==
  [][\A full_path \in DOMAIN fs :
       Evaluated(full_path)
       => \/ CollectedNext(full_path)
          \/ full_path \in DictKeys(skipped_files')
          \/ /\ read_text(full_path).ok
             /\ Len(strip(process_content(read_text(full_path).text,
                                          max_lines))) = 0]_vars

\* the loop of the frame below the top one still has the items it had
ParentGoesOn ==
  /\ pc' = "collecting"
  /\ stack' = Rest

\* C19: when a directory below the root cannot be listed, one skip entry
\* "directory error: ..." is recorded for its path, nothing is raised, and the
\* loop over the parent directory goes on with the remaining items.
C19_ListingFailureContained ==
  [][(Listing /\ fs[Top.path].listing # "ok" /\ Len(stack) > 1)
       => /\ \E kind \in {"PermissionError", "FileNotFoundError", "OSError"} :
               skipped_files' =
                 DictSet(skipped_files, Top.path,
                         "directory error: " \o strerror(kind))
          /\ ParentGoesOn]_vars

\* every directory above full_path has been listed by generate_tree: it is
\* within the depth limit and its listing succeeds
TreeReaches(full_path) ==
  \A k \in 1..(Len(full_path) - 1) :
    /\ ~too_deep(k - 1)
    /\ isdir(SubSeq(full_path, 1, k))
    /\ fs[SubSeq(full_path, 1, k)].listing = "ok"

\* C20: the tree lists every regular file within the depth limit and outside
\* the excluded directories, whatever its name.
C20_TreeListsEveryFile ==
  lines # <<>>
  => \A full_path \in DOMAIN fs :
       (/\ full_path # root_path
        /\ isfile(full_path)
        /\ TreeReaches(full_path)
        /\ ~UnderExcludedDirectory(full_path))
       => \E i \in 1..Len(lines) :
            lines[i].kind = "entry" /\ lines[i].path = full_path

\* generate_tree calls add_to_tree on full_path and os.listdir fails there
TreeFailsAt(full_path) ==
  /\ full_path = root_path \/ isdir(full_path)
  /\ fs[full_path].listing # "ok"
  /\ TreeReaches(full_path)
  /\ ~too_deep(Len(full_path) - Len(root_path))
  /\ full_path # root_path => basename(full_path) \notin exclude_dirs

\* the indexes of the lines written for full_path
LinesOf(kind, full_path) ==
  {i \in 1..Len(lines) : lines[i].kind = kind /\ lines[i].path = full_path}

\* C21: a directory that cannot be listed during generate_tree gives exactly
\* one line "<prefix>├── [Error: <message>]" right after its own entry,
\* nothing below it is rendered, and every sibling that is not name-excluded
\* still has its line.
C21_TreeErrorLine ==
  lines # <<>>
  => \A full_path \in DOMAIN fs :
       TreeFailsAt(full_path)
       => /\ Cardinality(LinesOf("error", full_path)) = 1
          /\ \A i \in LinesOf("error", full_path) :
               /\ Len(lines[i].text)
                    = 4 * (Len(full_path) - Len(root_path)) + 4
               /\ SubSeq(lines[i].text, Len(lines[i].text) - 3,
                         Len(lines[i].text)) = <<9500,9472,9472,32>>
               /\ lines[i].message
                    \in {"[Error: " \o strerror(kind) \o "]" :
                           kind \in {"PermissionError", "FileNotFoundError",
                                     "OSError"}}
               /\ lines[i - 1].path = full_path
               /\ lines[i - 1].kind = IF full_path = root_path THEN "root"
                                                               ELSE "entry"
          /\ \A i \in 1..Len(lines) :
               ~(/\ Len(lines[i].path) > Len(full_path)
                 /\ SubSeq(lines[i].path, 1, Len(full_path)) = full_path)
          /\ \A sibling \in DOMAIN fs :
               (/\ Len(sibling) = Len(full_path)
                /\ full_path # root_path
                /\ SubSeq(sibling, 1, Len(sibling) - 1)
                     = SubSeq(full_path, 1, Len(full_path) - 1)
                /\ basename(sibling) \notin exclude_dirs)
               => Cardinality(LinesOf("entry", sibling)) = 1

\* broken/ cannot be listed: its error line is followed by the line of z.py
C21_Witness ==
  /\ fs = TreeBroken
  /\ \E i \in LinesOf("error", <<n_proj, n_broken>>) :
       /\ i < Len(lines)
       /\ lines[i + 1].kind = "entry"
       /\ lines[i + 1].path = <<n_proj, n_z_py>>

\* is_code_file accepts the file the loop is at, and nothing but white space
\* is left of its content
AtBlankCandidate(full_path) ==
  /\ AtCandidate(full_path)
  /\ basename(full_path) \notin exclude_files
  /\ Recognized(basename(full_path))
  /\ Len(strip(process_content(read_text(full_path).text, max_lines))) = 0

\* C22: an eligible file whose processed content is empty or white space is
\* not collected, gets no skip reason, and leaves files_analyzed and
\* total_size as they are.
C22_BlankDroppedSilently ==
  [][\A full_path \in DOMAIN fs :
       AtBlankCandidate(full_path)
       => UNCHANGED <<code_files, skipped_files, files_analyzed,
                      total_size>>]_vars

\* blank.py, five empty lines, has been passed (z.py comes after it) and is
\* in neither record
C22_Witness ==
  /\ fs = TreeMisc
  /\ pc = "done"
  /\ Len(runs) = 1
  /\ IsCollected(<<n_z_py>>)
  /\ ~IsCollected(<<n_blank_py>>)
  /\ <<n_proj, n_blank_py>> \notin DictKeys(skipped_files)
  /\ Recognized(n_blank_py)
  /\ getsize(<<n_proj, n_blank_py>>) <= max_file_size
  /\ Len(strip(process_content(read_text(<<n_proj, n_blank_py>>).text,
                               max_lines))) = 0

\* the number of line feeds of a content
LineFeeds(content) == Cardinality({i \in 1..Len(content) : content[i] = LF})

\* process_content has been called
Processed == call_result # <<>>

\* C30 as stated: process_content returns its input unchanged if and only if
\* the input has fewer than max_lines line feeds.
C30_UnchangedIffFewLineFeeds ==
  Processed
  => (call_result[1] = call_content <=> LineFeeds(call_content) < max_lines)

\* the content is max_lines segments, an empty line and the marker line:
\* what process_content returns when it truncates
AlreadyTruncated(content) ==
  LET parts == split(content)
  IN  /\ Len(parts) = max_lines + 2
      /\ parts[max_lines + 1] = <<>>
      /\ parts[max_lines + 2] = Tail(marker(max_lines))

\* C30 amended: the input is returned unchanged if it has fewer than
\* max_lines line feeds; otherwise the result begins with the first
\* max_lines segments of the input, and it differs from the input unless the
\* input already ends with the empty line and the marker line of this
\* max_lines.  In particular a content of exactly max_lines lines that ends
\* with a line feed is truncated although line iteration counts max_lines
\* lines.
C30_TruncationThreshold ==
  Processed
  => /\ LineFeeds(call_content) < max_lines => call_result[1] = call_content
     /\ LineFeeds(call_content) >= max_lines
          => /\ SubSeq(split(call_result[1]), 1, max_lines)
                  = SubSeq(split(call_content), 1, max_lines)
             /\ call_result[1] = call_content
                  <=> AlreadyTruncated(call_content)
     /\ (/\ line_count(call_content) = max_lines
         /\ call_content[Len(call_content)] = LF)
          => call_result[1] # call_content

\* a content of exactly max_lines lines, not all empty, that ends with a line
\* feed has been truncated
C30_Witness ==
  /\ Processed
  /\ max_lines >= 2
  /\ line_count(call_content) = max_lines
  /\ call_content[Len(call_content)] = LF
  /\ 97 \in {call_content[i] : i \in 1..Len(call_content)}
  /\ Len(call_result[1]) > Len(call_content)

\* C26: once the tree is rendered, every collected file is the file of one of
\* its entry lines: nothing is collected that the tree leaves out for its
\* depth or for an excluded name.
C26_CollectedAreInTree ==
  lines # <<>>
  => \A i \in 1..Len(code_files) :
       \E j \in 1..Len(lines) :
         /\ lines[j].kind = "entry"
         /\ lines[j].path = root_path \o code_files[i][1]
         /\ isfile(lines[j].path)

\* a finished run with max_depth = 1 over the nested tree: a file of sub/ is
\* collected and rendered, d.py below sub/deep/ is in neither
C26_Witness ==
  /\ fs = TreeNested
  /\ max_depth = <<1>>
  /\ lines # <<>>
  /\ pc = "done"
  /\ \E i \in 1..Len(code_files) : Len(code_files[i][1]) = 2
  /\ <<n_proj, n_sub, n_deep, n_d_py>> \in DOMAIN fs
  /\ LinesOf("entry", <<n_proj, n_sub, n_deep, n_d_py>>) = {}
  /\ ~IsCollected(<<n_sub, n_deep, n_d_py>>)

\* os.listdir is called on a directory only if that directory is the root or
\* was reached from its listed parent, is not name-excluded and lies within
\* the depth limit
ListedFromParent(k) ==
  \/ listed[k] = root_path
  \/ /\ isdir(listed[k])
     /\ \E j \in 1..(k - 1) :
          listed[j] = SubSeq(listed[k], 1, Len(listed[k]) - 1)
     /\ basename(listed[k]) \notin exclude_dirs
     /\ ~too_deep(Len(listed[k]) - Len(root_path))

\* C27: collect_code_files terminates, and neither it nor generate_tree
\* lists a directory twice: a directory is listed only when it is reached
\* from its parent, is not name-excluded and lies within the depth limit.
C27_TerminatesListingOnce ==
  /\ (pc = "collecting") ~> (pc \in {"done", "raised"})
  /\ [](\A j, k \in 1..Len(listed) : listed[j] = listed[k] => j = k)
  /\ [](\A k \in 1..Len(listed) : ListedFromParent(k))
  /\ [](\A full_path \in DOMAIN fs :
          /\ Cardinality(LinesOf("entry", full_path)) <= 1
          /\ Cardinality(LinesOf("error", full_path)) <= 1
          /\ LinesOf("entry", full_path) # {}
               => /\ TreeReaches(full_path)
                  /\ basename(full_path) \notin exclude_dirs)

\* a finished run that listed the root and then sub/, with the tree rendered
\* down to d.py
C27_Witness ==
  /\ fs = TreeNested
  /\ pc = "done"
  /\ Len(listed) >= 2
  /\ listed[1] = root_path
  /\ listed[2] = <<n_proj, n_sub>>
  /\ LinesOf("entry", <<n_proj, n_sub, n_deep, n_d_py>>) # {}

\* C28: no path is both collected and in the skip record.
C28_CollectedNotSkipped ==
  \A i \in 1..Len(code_files) :
    root_path \o code_files[i][1] \notin DictKeys(skipped_files)

\* the first run on a fresh analyzer has returned with files collected and
\* files skipped
C28_Witness ==
  /\ pc = "done"
  /\ Len(runs) = 1
  /\ code_files # <<>>
  /\ \E key \in DictKeys(skipped_files) : isfile(key)

(***************************************************************************)
(* Two analyzers in one process.  The variables of the analyzer hold the   *)
(* state of the analyzer that is taking steps; the state of the other one  *)
(* is kept in other, and a switch of threads exchanges the two.  Before    *)
(* __init__ has run (pc = "new") the variables hold its arguments.         *)
(***************************************************************************)
\* the state of the analyzer that is taking steps
analyzer ==
  [root_path |-> root_path, exclude_dirs |-> exclude_dirs,
   exclude_files |-> exclude_files, max_file_size |-> max_file_size,
   max_files |-> max_files, max_depth |-> max_depth, max_lines |-> max_lines,
   files_analyzed |-> files_analyzed, total_size |-> total_size,
   skipped_files |-> skipped_files, code_files |-> code_files,
   stack |-> stack, pc |-> pc, lines |-> lines, listed |-> listed,
   runs |-> runs]

\* the arguments the two analyzers are constructed with
ArgsTwo ==
  {[root |-> 1, exclude_dirs |-> {}, exclude_files |-> {},
    max_file_size |-> DefaultMaxFileSize, max_files |-> 1,
    max_depth |-> <<>>, max_lines |-> DefaultMaxLines],
   [root |-> 1, exclude_dirs |-> {n_locked}, exclude_files |-> {n_app_py},
    max_file_size |-> MaxFileSizeSmall, max_files |-> MaxFilesOpt,
    max_depth |-> <<0>>, max_lines |-> MaxLinesSmall],
   [root |-> 2, exclude_dirs |-> {n_deep}, exclude_files |-> {},
    max_file_size |-> DefaultMaxFileSize, max_files |-> MaxFilesOpt,
    max_depth |-> <<>>, max_lines |-> MaxLinesSmall],
   [root |-> 1, exclude_dirs |-> {}, exclude_files |-> {},
    max_file_size |-> DefaultMaxFileSize, max_files |-> MaxFilesOpt,
    max_depth |-> <<>>, max_lines |-> DefaultMaxLines]}

\* the root of an analyzer: the project, or its subdirectory sub/ where the
\* tree has one
RootTwo(tree, args) ==
  IF args.root = 2 /\ <<n_proj, n_sub>> \in DOMAIN tree
  THEN <<n_proj, n_sub>>
  ELSE Root

\* an analyzer that is about to be constructed
New(tree, args) ==
  [root_path |-> RootTwo(tree, args), exclude_dirs |-> args.exclude_dirs,
   exclude_files |-> args.exclude_files,
   max_file_size |-> args.max_file_size, max_files |-> args.max_files,
   max_depth |-> args.max_depth, max_lines |-> args.max_lines,
   files_analyzed |-> 0, total_size |-> 0, skipped_files |-> <<>>,
   code_files |-> <<>>, stack |-> <<>>, pc |-> "new", lines |-> <<>>,
   listed |-> <<>>, runs |-> <<>>]

InitTwo ==
  /\ fs \in {TreeNested, TreeMisc, TreeBroken}
  /\ \E args \in ArgsTwo :
       /\ root_path = RootTwo(fs, args)
       /\ exclude_dirs = args.exclude_dirs
       /\ exclude_files = args.exclude_files
       /\ max_file_size = args.max_file_size
       /\ max_files = args.max_files
       /\ max_depth = args.max_depth
       /\ max_lines = args.max_lines
  /\ files_analyzed = 0
  /\ total_size = 0
  /\ skipped_files = <<>>
  /\ code_files = <<>>
  /\ stack = <<>>
  /\ pc = "new"
  /\ lines = <<>>
  /\ listed = <<>>
  /\ runs = <<>>
  /\ \E args \in ArgsTwo : other = New(fs, args)
  /\ module_dirs = DEFAULT_EXCLUDE_DIRS
  /\ caller = "none"
  /\ report = <<>>
  /\ summary = <<>>
  /\ output_path = <<>>
  /\ skipped_file_limit = 0
  /\ call_content = <<>>
  /\ call_result = <<>>

\* a constructor that adds its exclude_dirs to the module-level set
Construct_InPlace ==
  /\ pc = "new"
  /\ module_dirs' = module_dirs \cup exclude_dirs
  /\ exclude_dirs' = module_dirs'
  /\ pc' = "idle"
  /\ UNCHANGED <<fs, root_path, exclude_files, max_file_size, max_files,
                 max_depth, max_lines, files_analyzed, total_size,
                 skipped_files, code_files, stack, lines, listed, runs, call,
                 caller, report, summary, output_path, skipped_file_limit,
                 other>>

\* __init__: self.exclude_dirs = DEFAULT_EXCLUDE_DIRS | set(exclude_dirs) is
\* a new set; the counters and the skip record are the analyzer's own
Construct ==
  /\ pc = "new"
  /\ exclude_dirs' = module_dirs \cup exclude_dirs
  /\ files_analyzed' = 0
  /\ total_size' = 0
  /\ skipped_files' = <<>>
  /\ pc' = "idle"
  /\ UNCHANGED <<fs, root_path, exclude_files, max_file_size, max_files,
                 max_depth, max_lines, code_files, stack, lines, listed, runs,
                 call, ext>>

\* the other thread goes on
Switch ==
  /\ other' = analyzer
  /\ root_path' = other.root_path
  /\ exclude_dirs' = other.exclude_dirs
  /\ exclude_files' = other.exclude_files
  /\ max_file_size' = other.max_file_size
  /\ max_files' = other.max_files
  /\ max_depth' = other.max_depth
  /\ max_lines' = other.max_lines
  /\ files_analyzed' = other.files_analyzed
  /\ total_size' = other.total_size
  /\ skipped_files' = other.skipped_files
  /\ code_files' = other.code_files
  /\ stack' = other.stack
  /\ pc' = other.pc
  /\ lines' = other.lines
  /\ listed' = other.listed
  /\ runs' = other.runs
  /\ UNCHANGED <<fs, call, caller, report, summary, output_path,
                 skipped_file_limit, module_dirs>>

\* each thread constructs its analyzer and calls collect_code_files on it
NextTwo ==
  \/ Construct
  \/ Switch
  \/ pc # "new" /\ CollectStart
  \/ Running

SpecTwo == InitTwo /\ [][NextTwo]_vars

\* collect_code_files as a function: what process_directory(path, depth)
\* makes of the state st of a run that nothing interrupts
RECURSIVE process_directory(_, _, _), process_items(_, _, _, _)
process_directory(path, current_depth, st) ==
  IF \/ too_deep(current_depth)
     \/ st.files_analyzed >= max_files
     \/ st.total_size > MAX_TOTAL_SIZE_BYTES
    THEN st
  ELSE IF fs[path].listing \in {"PermissionError", "FileNotFoundError"}
    THEN [st EXCEPT !.skipped_files =
            DictSet(@, path,
                    "directory error: " \o strerror(fs[path].listing))]
  ELSE IF fs[path].listing # "ok"
    THEN [st EXCEPT !.raised = TRUE]
  ELSE process_items(path, current_depth, sorted(listdir(path)), st)

process_items(path, current_depth, items, st) ==
  IF items = <<>> \/ st.raised THEN st
  ELSE
    LET full_path == join(path, Head(items))
        accepted == is_code_file(full_path, st.skipped_files)
        content == process_content(read_text(full_path).text, max_lines)
        next ==
          IF Head(items) \in exclude_dirs THEN st
          ELSE IF isdir(full_path)
            THEN process_directory(full_path, current_depth + 1, st)
          ELSE IF ~isfile(full_path) THEN st
          ELSE IF getsize(full_path) > max_file_size
            THEN [st EXCEPT !.skipped_files =
                    DictSet(@, full_path, too_large(getsize(full_path)))]
          ELSE IF ~accepted.result
            THEN [st EXCEPT !.skipped_files = accepted.skipped]
          ELSE IF Len(strip(content)) = 0 THEN st
          ELSE [st EXCEPT
                  !.code_files =
                    Append(@, <<relpath(full_path, root_path), content>>),
                  !.files_analyzed = @ + 1,
                  !.total_size = @ + Len(content)]
    IN  process_items(path, current_depth, Tail(items), next)

\* the first collect_code_files of a freshly constructed analyzer, run alone
collect_alone ==
  process_directory(root_path, 0,
                    [code_files |-> <<>>, files_analyzed |-> 0,
                     total_size |-> 0, skipped_files |-> <<>>,
                     raised |-> FALSE])

\* C25: two analyzers, constructed and run in threads that are interleaved
\* step by step, each end their first collect with the collected files, the
\* counters and the skip record of a run alone; a step of one analyzer
\* leaves the state of the other and the module-level default set alone, and
\* each analyzer merges its exclusions into a set of its own.
C25_IndependentAnalyzers ==
  /\ [](module_dirs = DEFAULT_EXCLUDE_DIRS)
  /\ [][other' = other \/ (other' = analyzer /\ analyzer' = other)]_vars
  /\ [][(pc = "new" /\ other' = other)
          => exclude_dirs' = DEFAULT_EXCLUDE_DIRS \cup exclude_dirs]_vars
  /\ [](pc = "raised" => collect_alone.raised)
  /\ []((pc = "done" /\ Len(runs) = 1 /\ ~collect_alone.raised)
          => /\ code_files = collect_alone.code_files
             /\ files_analyzed = collect_alone.files_analyzed
             /\ total_size = collect_alone.total_size
             /\ skipped_files = collect_alone.skipped_files)

\* one analyzer has finished its first run with files collected, while the
\* run of the other one, on another root and with other settings, is in
\* progress and has collected files as well
C25_Witness ==
  /\ pc = "done"
  /\ Len(runs) = 1
  /\ code_files # <<>>
  /\ other.pc = "collecting"
  /\ other.runs = <<>>
  /\ other.code_files # <<>>
  /\ other.max_files # max_files
  /\ other.root_path # root_path
  /\ other.exclude_dirs # exclude_dirs

(***************************************************************************)
(* The report: texts are sequences of code points                          *)
(***************************************************************************)
\* the characters of the strings the model keeps as TLA+ strings
chars_binary_file == <<98,105,110,97,114,121,32,102,105,108,101>>

chars_unknown_type == <<117,110,107,110,111,119,110,32,116,121,112,101>>

chars_too_few_lines == <<116,111,111,32,102,101,119,32,108,105,110,101,115,32,40>>

chars_file_too_large == <<102,105,108,101,32,116,111,111,32,108,97,114,103,101,32,40>>

chars_KB == <<75,66,41>>

chars_directory_error == <<100,105,114,101,99,116,111,114,121,32,101,114,114,111,114,58,32>>

chars_encoding_error == <<101,110,99,111,100,105,110,103,32,101,114,114,111,114,58,32,91,85,110,105,99,111,100,101,68,101,99,111,100,101,69,114,114,111,114,93>>

chars_permission_denied == <<112,101,114,109,105,115,115,105,111,110,32,100,101,110,105,101,100>>

chars_Error == <<91,69,114,114,111,114,58,32>>

chars_PermissionError == <<80,101,114,109,105,115,115,105,111,110,69,114,114,111,114>>

chars_FileNotFoundError == <<70,105,108,101,78,111,116,70,111,117,110,100,69,114,114,111,114>>

chars_OSError == <<79,83,69,114,114,111,114>>

\* the characters of the name of an exception class
chars_kind(kind) ==
  IF kind = "PermissionError" THEN chars_PermissionError
  ELSE IF kind = "FileNotFoundError" THEN chars_FileNotFoundError
  ELSE chars_OSError

\* the characters of strerror(kind)
chars_strerror(kind) == <<91>> \o chars_kind(kind) \o <<93>>

\* the file sizes a "file too large" reason of the model is written for
Sizes == {Len(fs[p].bytes) : p \in DOMAIN fs}

\* the characters of a skip reason
chars_reason(reason) ==
  IF reason = "binary file" THEN chars_binary_file
  ELSE IF reason = "unknown type" THEN chars_unknown_type
  ELSE IF reason = "permission denied" THEN chars_permission_denied
  ELSE IF reason = "encoding error: [UnicodeDecodeError]"
    THEN chars_encoding_error
  ELSE IF \E kind \in {"PermissionError", "FileNotFoundError"} :
            reason = "directory error: " \o strerror(kind)
    THEN chars_directory_error
           \o chars_strerror(CHOOSE kind \in {"PermissionError",
                                              "FileNotFoundError"} :
                               reason = "directory error: " \o strerror(kind))
  ELSE IF \E k \in 0..MIN_LINES_PER_FILE :
            reason = "too few lines (" \o ToString(k) \o ")"
    THEN chars_too_few_lines
           \o str(CHOOSE k \in 0..MIN_LINES_PER_FILE :
                    reason = "too few lines (" \o ToString(k) \o ")")
           \o <<41>>
  ELSE LET file_size == CHOOSE n \in Sizes : reason = too_large(n)
       IN  chars_file_too_large \o str(kb_tenths(file_size) \div 10)
             \o <<46>> \o str(kb_tenths(file_size) % 10) \o chars_KB

\* a path as the program prints it: the components joined by "/", and "."
\* for the path relative to itself
RECURSIVE path_text(_)
path_text(path) ==
  IF path = <<>> THEN <<46>>
  ELSE IF Len(path) = 1 THEN path[1]
  ELSE path[1] \o <<47>> \o path_text(Tail(path))

\* the UTF-8 bytes of a code point below 65536
utf8_bytes(c) ==
  IF c < 128 THEN <<c>>
  ELSE IF c < 2048 THEN <<192 + (c \div 64), 128 + (c % 64)>>
  ELSE <<224 + (c \div 4096), 128 + ((c \div 64) % 64), 128 + (c % 64)>>

\* the bytes of the characters lo..hi of text
RECURSIVE utf8_range(_, _, _)
utf8_range(text, lo, hi) ==
  IF lo > hi THEN <<>>
  ELSE IF lo = hi THEN utf8_bytes(text[lo])
  ELSE utf8_range(text, lo, (lo + hi) \div 2)
         \o utf8_range(text, (lo + hi) \div 2 + 1, hi)

\* str.encode('utf-8')
utf8_encode(text) == utf8_range(text, 1, Len(text))

\* the default of the parameter of generate_summary
DefaultSkippedFileLimit == 10

\* datetime.now(), in seconds after the first instant of the model: the
\* clock advances by a second with each collect_code_files
now == Len(runs)

\* now.strftime('%Y-%m-%d %H:%M:%S')
strftime_summary(t) == <<50,48,50,52,45,48,49,45,48,49,32,48,48,58,48,48,58,48>> \o str(t)

\* now.strftime('%Y%m%d_%H%M%S')
strftime_filename(t) == <<50,48,50,52,48,49,48,49,95,48,48,48,48,48>> \o str(t)

\* f"{self.total_size / 1024:.2f}": hundredths of a KB, ties rounded to even
kb_hundredths(size) ==
  LET q == (size * 100) \div 1024
      r == (size * 100) % 1024
  IN  IF r > 512 \/ (r = 512 /\ q % 2 = 1) THEN q + 1 ELSE q

format_2f(size) ==
  str(kb_hundredths(size) \div 100) \o <<46>>
    \o str((kb_hundredths(size) \div 10) % 10)
    \o str(kb_hundredths(size) % 10)

\* 'Project Documentation Summary'
line_title == <<80,114,111,106,101,99,116,32,68,111,99,117,109,101,110,116,97,116,105,111,110,32,83,117,109,109,97,114,121>>

\* '========================='
line_title_rule == <<61,61,61,61,61,61,61,61,61,61,61,61,61,61,61,61,61,61,61,61,61,61,61,61,61>>

\* 'Root Directory: '
label_root == <<82,111,111,116,32,68,105,114,101,99,116,111,114,121,58,32>>

\* 'Files Analyzed: '
label_files == <<70,105,108,101,115,32,65,110,97,108,121,122,101,100,58,32>>

\* 'Total Size: '
label_size == <<84,111,116,97,108,32,83,105,122,101,58,32>>

\* ' KB'
label_KB == <<32,75,66>>

\* 'Timestamp: '
label_timestamp == <<84,105,109,101,115,116,97,109,112,58,32>>

\* 'Skipped Files Sample:'
line_skipped == <<83,107,105,112,112,101,100,32,70,105,108,101,115,32,83,97,109,112,108,101,58>>

\* '-------------------'
line_skipped_rule == <<45,45,45,45,45,45,45,45,45,45,45,45,45,45,45,45,45,45,45>>

\* '  • '
label_bullet == <<32,32,8226,32>>

\* '...and '
label_and == <<46,46,46,97,110,100,32>>

\* ' more'
label_more == <<32,109,111,114,101>>

\* ' files):'
label_files_colon == <<32,102,105,108,101,115,41,58>>

\* '\nDirectory Structure\n==================\n'
piece_structure == <<10,68,105,114,101,99,116,111,114,121,32,83,116,114,117,99,116,117,114,101,10,61,61,61,61,61,61,61,61,61,61,61,61,61,61,61,61,61,61,10>>

\* '\nFile Contents\n=============\n'
piece_contents == <<10,70,105,108,101,32,67,111,110,116,101,110,116,115,10,61,61,61,61,61,61,61,61,61,61,61,61,61,10>>

\* 'File: '
label_file == <<70,105,108,101,58,32>>

\* 'project_docs_'
prefix_project_docs == <<112,114,111,106,101,99,116,95,100,111,99,115,95>>

\* '.md'
suffix_md == <<46,109,100>>

\* by_reason.setdefault(reason, []).append(file): the groups keep the order
\* in which their reasons first appear
group_add(groups, reason, file) ==
  IF \E i \in 1..Len(groups) : groups[i][1] = reason
  THEN [i \in 1..Len(groups) |->
          IF groups[i][1] = reason
          THEN <<reason, Append(groups[i][2], file)>>
          ELSE groups[i]]
  ELSE Append(groups, <<reason, <<file>>>>)

\* by_reason after the first n items of the skip record
RECURSIVE by_reason(_, _)
by_reason(skipped, n) ==
  IF n = 0 THEN <<>>
  ELSE group_add(by_reason(skipped, n - 1), skipped[n][2],
                 relpath(skipped[n][1], root_path))

\* the lines of the summary for one reason, with "...and N more" also when
\* nothing is left out
reason_lines_AlwaysMore(reason, files, limit) ==
  LET total == Len(files)
      sample == SubSeq(files, 1, Min({limit, total}))
      remaining == total - Len(sample)
  IN  IF total = 1
      THEN <<<<45, 32>> \o chars_reason(reason) \o <<58, 32>>
               \o path_text(files[1])>>
      ELSE <<<<45, 32>> \o chars_reason(reason) \o <<32, 40>> \o str(total)
               \o label_files_colon>>
           \o [i \in 1..Len(sample) |-> label_bullet \o path_text(sample[i])]
           \o (IF remaining >= 0
               THEN <<label_bullet \o label_and \o str(remaining)
                        \o label_more>>
               ELSE <<>>)

\* the lines of the summary for one reason
reason_lines(reason, files, limit) ==
  LET total == Len(files)
      sample == SubSeq(files, 1, Min({limit, total}))
      remaining == total - Len(sample)
  IN  IF total = 1
      THEN <<<<45, 32>> \o chars_reason(reason) \o <<58, 32>>
               \o path_text(files[1])>>
      ELSE <<<<45, 32>> \o chars_reason(reason) \o <<32, 40>> \o str(total)
               \o label_files_colon>>
           \o [i \in 1..Len(sample) |-> label_bullet \o path_text(sample[i])]
           \o (IF remaining > 0
               THEN <<label_bullet \o label_and \o str(remaining)
                        \o label_more>>
               ELSE <<>>)

\* the lines of the groups from the i-th on
RECURSIVE group_lines(_, _, _)
group_lines(groups, i, limit) ==
  IF i > Len(groups) THEN <<>>
  ELSE reason_lines(groups[i][1], groups[i][2], limit)
         \o group_lines(groups, i + 1, limit)

\* generate_summary(skipped_file_limit)
generate_summary(limit) ==
  joinLF(
    <<line_title,
      line_title_rule,
      label_root \o path_text(root_path),
      label_files \o str(files_analyzed),
      label_size \o format_2f(total_size) \o label_KB,
      label_timestamp \o strftime_summary(now)>>
    \o (IF skipped_files # <<>>
        THEN <<<<>>, line_skipped, line_skipped_rule>>
               \o group_lines(by_reason(skipped_files, Len(skipped_files)), 1,
                              limit)
        ELSE <<>>))

\* the number of characters of the separator
SEPARATOR_WIDTH == 80

\* "=" * 80 + "\n"
separator == [i \in 1..SEPARATOR_WIDTH |-> 61] \o <<LF>>

\* the text of a line of the tree
tree_line(line) ==
  IF line.kind = "error"
  THEN line.text \o chars_Error \o chars_strerror(fs[line.path].listing)
         \o <<93>>
  ELSE line.text

\* the pieces the loop over code_files appends, each file after the one
\* before it, without the line feed before the separator
file_pieces_NoLeadingLF(files) ==
  [k \in 1..(3 * Len(files)) |->
     IF k % 3 = 1
       THEN separator \o label_file
              \o path_text(files[(k + 2) \div 3][1]) \o <<LF>> \o separator
     ELSE IF k % 3 = 2 THEN files[(k + 2) \div 3][2]
     ELSE <<LF>>]

\* the pieces the loop over code_files appends
file_pieces(files) ==
  [k \in 1..(3 * Len(files)) |->
     IF k % 3 = 1
       THEN <<LF>> \o separator \o label_file
              \o path_text(files[(k + 2) \div 3][1]) \o <<LF>> \o separator
     ELSE IF k % 3 = 2 THEN files[(k + 2) \div 3][2]
     ELSE <<LF>>]

\* generate_report once the tree and the collection are made
generate_report(tree, files) ==
  joinLF(<<generate_summary(DefaultSkippedFileLimit),
           piece_structure,
           joinLF([i \in 1..Len(tree) |-> tree_line(tree[i])]),
           piece_contents>>
         \o file_pieces(files))

(***************************************************************************)
(* generate_summary, generate_report and save_report                       *)
(***************************************************************************)
n_out_md == <<111,117,116,46,109,100>>   \* "out.md"

n_tmp == <<116,109,112>>   \* "tmp"

n_m_xyz == <<109,46,120,121,122>>   \* "m.xyz"

n_n_xyz == <<110,46,120,121,122>>   \* "n.xyz"

n_o_xyz == <<111,46,120,121,122>>   \* "o.xyz"

n_p_bin == <<112,46,98,105,110>>   \* "p.bin"

n_q_bin == <<113,46,98,105,110>>   \* "q.bin"

\* files skipped for a few reasons: three of an unknown type, two binary
\* ones, one too short
TreeSkips ==
  (Root :> Dir("ok"))
  @@ (<<n_proj, n_a_py>> :> File(TextLines(5)))
  @@ (<<n_proj, n_m_xyz>> :> File(TextLines(5)))
  @@ (<<n_proj, n_n_xyz>> :> File(TextLines(5)))
  @@ (<<n_proj, n_o_xyz>> :> File(TextLines(5)))
  @@ (<<n_proj, n_p_bin>> :> File(BinaryBytes))
  @@ (<<n_proj, n_q_bin>> :> File(BinaryBytes))
  @@ (<<n_proj, n_short_py>> :> File(TextLines(2)))

\* the values of skipped_file_limit generate_summary is called with
MaxSample == 2

SampleCounts == (1..MaxSample) \cup {DefaultSkippedFileLimit}

\* the values of the argument output_path of save_report, next to None: a
\* file in the root and a file outside of it
Destinations == {<<n_proj, n_out_md>>, <<n_tmp, n_out_md>>}

\* f"project_docs_{root_name}_{datetime.now():%Y%m%d_%H%M%S}.md"
default_filename ==
  prefix_project_docs \o basename(root_path) \o <<95>>
    \o strftime_filename(now) \o suffix_md

\* open(path, 'w', encoding='utf-8') and f.write(text)
write(path, text) ==
  [p \in DOMAIN fs \cup {path} |->
     IF p = path THEN File(utf8_encode(text)) ELSE fs[p]]

InitReport ==
  /\ fs \in {TreeNested, TreeMisc, TreeBroken, TreeSkips}
  /\ \E args \in ArgsTwo :
       /\ fs = TreeBroken => args.max_files > 1 /\ args.max_depth = <<>>
       /\ fs = TreeSkips => args.max_files = 1
       /\ fs = TreeMisc => args.root = 1 /\ args.max_files > 1
       /\ root_path = RootTwo(fs, args)
       /\ exclude_dirs = DEFAULT_EXCLUDE_DIRS \cup args.exclude_dirs
       /\ exclude_files = args.exclude_files
       /\ max_file_size = args.max_file_size
       /\ max_files = args.max_files
       /\ max_depth = args.max_depth
       /\ max_lines = args.max_lines
  /\ files_analyzed = 0
  /\ total_size = 0
  /\ skipped_files = <<>>
  /\ code_files = <<>>
  /\ stack = <<>>
  /\ pc = "idle"
  /\ lines = <<>>
  /\ listed = <<>>
  /\ runs = <<>>
  /\ call_content = <<>>
  /\ call_result = <<>>
  /\ caller = "none"
  /\ report = <<>>
  /\ summary = <<>>
  /\ output_path = <<>>
  /\ skipped_file_limit = 0
  /\ module_dirs = DEFAULT_EXCLUDE_DIRS
  /\ other = <<>>

\* generate_summary(skipped_file_limit), called on an analyzer at rest
GenerateSummary ==
  /\ pc \in {"idle", "done", "raised"}
  /\ caller = "none"
  /\ \E limit \in SampleCounts :
       /\ skipped_file_limit' = limit
       /\ summary' = <<generate_summary(limit)>>
  /\ UNCHANGED <<config, call, files_analyzed, total_size, skipped_files,
                 code_files, stack, pc, lines, listed, runs, caller, report,
                 output_path, module_dirs, other>>

\* generate_report up to its call of collect_code_files: the tree is made
\* and the collection begins
GenerateReport ==
  /\ pc \in {"idle", "done", "raised"}
  /\ caller = "none"
  /\ Len(runs) < MaxRuns
  /\ caller' = "generate_report"
  /\ lines' = generate_tree
  /\ code_files' = <<>>
  /\ files_analyzed' = 0
  /\ stack' = <<Call(root_path, 0)>>
  /\ pc' = "collecting"
  /\ listed' = <<>>
  /\ report' = <<>>
  /\ summary' = <<>>
  /\ output_path' = <<>>
  /\ skipped_file_limit' = 0
  /\ UNCHANGED <<config, call, total_size, skipped_files, runs, module_dirs,
                 other>>

\* save_report(output_path) up to the call of collect_code_files in its
\* generate_report: the destination is fixed, the tree is made and the
\* collection begins
SaveReport ==
  /\ pc \in {"idle", "done", "raised"}
  /\ caller = "none"
  /\ Len(runs) < MaxRuns
  /\ \E arg \in {<<>>} \cup {<<p>> : p \in Destinations} :
       output_path' = IF arg = <<>>
                      THEN <<join(root_path, default_filename)>>
                      ELSE arg
  /\ caller' = "save_report"
  /\ lines' = generate_tree
  /\ code_files' = <<>>
  /\ files_analyzed' = 0
  /\ stack' = <<Call(root_path, 0)>>
  /\ pc' = "collecting"
  /\ listed' = <<>>
  /\ report' = <<>>
  /\ summary' = <<>>
  /\ skipped_file_limit' = 0
  /\ UNCHANGED <<config, call, total_size, skipped_files, runs, module_dirs,
                 other>>

\* collect_code_files has returned to generate_report: the summary is made
\* and the report is put together; save_report then writes it
FinishReport ==
  /\ pc = "done"
  /\ caller # "none"
  /\ \E text \in {generate_report(lines, code_files)} :
       /\ summary' = <<generate_summary(DefaultSkippedFileLimit)>>
       /\ report' = <<text>>
       /\ fs' = IF caller = "save_report" THEN write(output_path[1], text)
                ELSE fs
  /\ skipped_file_limit' = DefaultSkippedFileLimit
  /\ caller' = "none"
  /\ UNCHANGED <<root_path, exclude_dirs, exclude_files, max_file_size,
                 max_files, max_depth, max_lines, call, files_analyzed,
                 total_size, skipped_files, code_files, stack, pc, lines,
                 listed, runs, output_path, module_dirs, other>>

\* the exception of collect_code_files passes through generate_report and
\* save_report: nothing is returned and nothing is written
ReportRaised ==
  /\ pc = "raised"
  /\ caller # "none"
  /\ caller' = "none"
  /\ UNCHANGED <<config, call, files_analyzed, total_size, skipped_files,
                 code_files, stack, pc, lines, listed, runs, report, summary,
                 output_path, skipped_file_limit, module_dirs, other>>

NextReport ==
  \/ GenerateSummary
  \/ GenerateReport
  \/ SaveReport
  \/ Running
  \/ FinishReport
  \/ ReportRaised

SpecReport == InitReport /\ [][NextReport]_vars

\* the lines of the last report
ReportLines == split(report[1])

\* the number of lines of the summary at the head of the last report
SummaryLength == Len(split(summary[1]))

\* the line of eighty "=" that comes before and after each "File: " line
SeparatorLine == [i \in 1..80 |-> 61]

\* the number of the blank line that opens the block of the k-th collected
\* file: each block is that blank line, the separator line, the "File: "
\* line, the separator line, a blank line, the lines of the content and two
\* blank lines
RECURSIVE BlockStart(_)
BlockStart(k) ==
  IF k = 1 THEN SummaryLength + Len(lines) + 9
  ELSE BlockStart(k - 1) + 7 + Len(split(code_files[k - 1][2]))

\* C23: a report begins with the summary, whose fourth line gives the number
\* of files of the collect the report was made from; a blank line, the
\* header "Directory Structure", its rule and a blank line follow, then the
\* lines of the tree, then a blank line, the header "File Contents", its
\* rule and a blank line; after these come the blocks of the collected
\* files in collected order and nothing else, each with a line of eighty
\* "=", the line "File: <relative path>", the same line of "=" and the
\* content of the file.  This holds as well when no file was collected and
\* when no file was skipped.
C23_ReportSections ==
  report # <<>> /\ caller = "none" /\ skipped_file_limit = DefaultSkippedFileLimit
  => LET L == ReportLines
         s == SummaryLength
         t == Len(lines)
         n == Len(code_files)
     IN  /\ SubSeq(L, 1, s) = split(summary[1])
         /\ L[1] = line_title
         /\ L[4] = label_files \o str(n)
         /\ n = files_analyzed
         /\ SubSeq(L, s + 1, s + 4)
              = <<<<>>, split(piece_structure)[2], split(piece_structure)[3],
                  <<>>>>
         /\ split(piece_structure)[2]
              = <<68,105,114,101,99,116,111,114,121,32,83,116,114,117,99,116,
                  117,114,101>>
         /\ \A i \in 1..t : L[s + 4 + i] = tree_line(lines[i])
         /\ SubSeq(L, s + t + 5, s + t + 8)
              = <<<<>>, split(piece_contents)[2], split(piece_contents)[3],
                  <<>>>>
         /\ split(piece_contents)[2]
              = <<70,105,108,101,32,67,111,110,116,101,110,116,115>>
         /\ \A k \in 1..n :
              LET b == BlockStart(k)
                  c == split(code_files[k][2])
              IN  /\ L[b] = <<>>
                  /\ L[b + 1] = SeparatorLine
                  /\ L[b + 2] = label_file \o path_text(code_files[k][1])
                  /\ L[b + 3] = SeparatorLine
                  /\ L[b + 4] = <<>>
                  /\ SubSeq(L, b + 5, b + 4 + Len(c)) = c
                  /\ L[b + 5 + Len(c)] = <<>>
                  /\ L[b + 6 + Len(c)] = <<>>
         /\ Len(L) = (IF n = 0 THEN s + t + 8
                      ELSE BlockStart(n) + 6 + Len(split(code_files[n][2])))

\* a report of two collected files or more and of skipped files
C23_Witness ==
  /\ report # <<>>
  /\ caller = "none"
  /\ skipped_file_limit = DefaultSkippedFileLimit
  /\ Len(code_files) >= 2
  /\ skipped_files # <<>>
  /\ Len(lines) >= 3

\* the lines of the last summary
SummaryLines == split(summary[1])

\* the reasons of the skip record
SkipReasons == {skipped_files[i][2] : i \in 1..Len(skipped_files)}

\* the paths skipped for a reason, relative to the root, in the order of the
\* skip record
PathsFor(reason) ==
  LET items == SelectSeq(skipped_files, LAMBDA item : item[2] = reason)
  IN  [j \in 1..Len(items) |-> relpath(items[j][1], root_path)]

\* the place in the skip record of the first path skipped for a reason
FirstFor(reason) ==
  Min({i \in 1..Len(skipped_files) : skipped_files[i][2] = reason})

\* the number of lines a reason with k paths takes with a sample count
LinesFor(k, sampleCount) ==
  IF k = 1 THEN 1
  ELSE 1 + Min({k, sampleCount}) + (IF k > sampleCount THEN 1 ELSE 0)

\* the line at which the group of a reason begins: the ninth line is the
\* rule under "Skipped Files Sample:", and the groups of the reasons that
\* appear earlier in the skip record come first
GroupStart(reason, sampleCount) ==
  LET earlier == {r \in SkipReasons : FirstFor(r) < FirstFor(reason)}
      taken == [r \in earlier |-> LinesFor(Len(PathsFor(r)), sampleCount)]
      before == SelectSeq(skipped_files,
                          LAMBDA item : FirstFor(item[2]) < FirstFor(reason))
      shown == SelectSeq(indices(before),
                  LAMBDA i :
                    /\ Len(PathsFor(before[i][2])) > 1
                    /\ Len(SelectSeq(SubSeq(before, 1, i),
                                     LAMBDA item : item[2] = before[i][2]))
                         <= sampleCount)
  IN  10 + Cardinality(earlier) + Len(shown)
         + Cardinality({r \in earlier : /\ Len(PathsFor(r)) > 1
                                        /\ Len(PathsFor(r)) > sampleCount})

\* the number of lines of a summary: six without a skipped-files section,
\* and up to the end of the last group with one
SummaryEnd(sampleCount) ==
  IF skipped_files = <<>> THEN 6
  ELSE Max({GroupStart(reason, sampleCount)
              + LinesFor(Len(PathsFor(reason)), sampleCount) - 1 :
            reason \in SkipReasons})

\* the lines L are a summary with its skipped-files section for a sample
\* count
SkippedSection(L, sampleCount) ==
  /\ Len(L) = SummaryEnd(sampleCount)
  /\ (\E i \in 1..Len(L) : L[i] = line_skipped) <=> skipped_files # <<>>
  /\ skipped_files # <<>> =>
       /\ SubSeq(L, 7, 9) = <<<<>>, line_skipped, line_skipped_rule>>
       /\ \A reason \in SkipReasons :
            LET files == PathsFor(reason)
                k == Len(files)
                g == GroupStart(reason, sampleCount)
                shown == Min({k, sampleCount})
            IN  /\ k = 1 =>
                     L[g] = <<45, 32>> \o chars_reason(reason) \o <<58, 32>>
                              \o path_text(files[1])
                /\ k > 1 =>
                     /\ L[g] = <<45, 32>> \o chars_reason(reason) \o <<32, 40>>
                                 \o str(k) \o label_files_colon
                     /\ \A j \in 1..shown :
                          L[g + j] = label_bullet \o path_text(files[j])
                     /\ k > sampleCount =>
                          L[g + shown + 1]
                            = label_bullet \o label_and
                                \o str(k - sampleCount) \o label_more
                     /\ k <= sampleCount =>
                          \/ g + shown = Len(L)
                          \/ SubSeq(L[g + shown + 1], 1, 2) = <<45, 32>>

\* C24: the summary has a skipped-files section exactly if the skip record
\* is not empty.  The section has one group for each reason, in the order in
\* which the reasons first appear in the skip record; a reason with one path
\* is one line "- <reason>: <path>"; a reason with k > 1 paths is the line
\* "- <reason> (k files):", the first min(k, sampleCount) of its paths, and a
\* line "...and N more" with N = k - sampleCount exactly if k > sampleCount.
\* The summary of a report is made with the sample count 10.
C24_SkippedSection ==
  /\ summary # <<>> => SkippedSection(SummaryLines, skipped_file_limit)
  /\ (report # <<>> /\ caller = "none")
       => /\ SkippedSection(SubSeq(ReportLines, 1, SummaryEnd(10)), 10)
          /\ ReportLines[SummaryEnd(10) + 2]
               = <<68,105,114,101,99,116,111,114,121,32,83,116,114,117,99,
                   116,117,114,101>>

\* a summary made with a sample count of two, of a skip record that holds
\* one reason with three paths, one with two and one with one
C24_Witness ==
  /\ summary # <<>>
  /\ skipped_file_limit = 2
  /\ \E r1, r2, r3 \in SkipReasons :
       /\ Len(PathsFor(r1)) = 3
       /\ Len(PathsFor(r2)) = 2
       /\ Len(PathsFor(r3)) = 1

\* save_report is about to write the report it has put together
Writing == caller = "save_report" /\ pc = "done" /\ caller' = "none"

\* the path save_report writes is an entry of the tree or a collected file
\* of the report it writes
InOwnReport ==
  \/ \E i \in 1..Len(lines) : lines[i].path = output_path[1]
  \/ \E i \in 1..Len(code_files) :
       root_path \o code_files[i][1] = output_path[1]

\* C29: the file save_report writes is neither an entry of the tree nor a
\* collected file of the report written into it, wherever the destination
\* lies; the file system changes with that write only, so a collect that
\* raises leaves no file behind and overwrites none.
C29_OutputNotInOwnReport ==
  /\ [][Writing => ~InOwnReport]_vars
  /\ [][fs' # fs => Writing]_vars
  /\ [][(caller = "save_report" /\ pc = "raised") => fs' = fs]_vars

\* the same for a destination that does not exist when save_report is called
C29_FreshOutputNotInOwnReport ==
  /\ [][(Writing /\ output_path[1] \notin DOMAIN fs) => ~InOwnReport]_vars
  /\ [][fs' # fs => Writing]_vars
  /\ [][(caller = "save_report" /\ pc = "raised") => fs' = fs]_vars

====
